---------------------------- MODULE Spec2Model ----------------------------
(***************************************************************************)
(* A model of skar's rpc-client endpoint (rpc-client/src/endpoint.rs), of  *)
(* the query executor (skar/src/query/execution/mod.rs), of the query      *)
(* handler (skar/src/query/handler.rs) and of the HTTP server              *)
(* (skar/src/server.rs).                                                   *)
(*                                                                         *)
(* The specifications that share the module:                               *)
(*   SpecReqs   the pure request functions of Endpoint and Listen          *)
(*   SpecLimit  Listen::update_limit called at arbitrary times             *)
(*   Spec       one Endpoint: callers of send, the queue listener, the     *)
(*              detached SendRpcRequest tasks and the health watcher       *)
(*   SpecSend   the same endpoint, started from every content of the tip   *)
(*              cell                                                       *)
(*   SpecQuery  execute_query over one data provider                       *)
(*   SpecHeight Handler::archive_height on every in-memory buffer and db   *)
(*   SpecHandler Handler::handle: the worker that drives the               *)
(*              QueryResultIterator, the channel and its receiver          *)
(*   SpecPrune  prune_query applied to a query and a set of addresses      *)
(*   SpecServer run_query: the loop over the partial results, the limits   *)
(*              and the in-memory step                                     *)
(***************************************************************************)
EXTENDS Integers, Sequences, FiniteSets, TLC

VARIABLES
    \* SpecReqs: one request, one LimitConfig, and the two results
    in_req, in_cfg, required, needed, rq_pc,
    \* Listen: limit_config, window_num_reqs, last_limit_refresh; the clock
    limit_config, window_num_reqs, last_limit_refresh, now,
    \* SpecLimit, history: the last update_limit call, the cost admitted at
    \* each instant, the instants at which the window was reset
    lim_call, admitted_at, resets,
    \* Endpoint: the tip cell and the job channel
    last_block, job_q,
    \* callers of Endpoint::send: position, request, returned value
    cpc, creq, cres,
    \* per job: its reply channel, the result of update_limit, the task the
    \* listener spawned for it, the value SendRpcRequest::send returned
    res_chan, admit, task, outcome,
    \* history: the job ids in the order the listener popped them
    served,
    \* WatchHealth: position, the probe's task, returned value and channel
    wpc, probe, probe_out, probe_chan,
    \* execute_query: the DataProvider's tables, the Query, the QueryContext's
    \* two sets, the returned QueryResultData, the tables that were loaded
    \* from the provider, the caller's position
    provider, query, transaction_set, block_set, query_result, loaded, q_pc,
    \* Handler: the handler (state: in_mem, db; cfg), the clock (ms), the
    \* value archive_height returned
    handler, clock, height,
    \* Handler::handle: the QueryResultIterator, the position of the worker
    \* that drives it and the item it is about to send, the channel
    iter, worker, worker_res, channel,
    \* history: the items sent on the channel, the number of times the
    \* in-memory provider was queried
    stream, in_mem_queries,
    \* history: what the last call of next read of its folder, the in-memory
    \* buffer that was current when handle was called, the buffer that next
    \* loaded
    last_io, in_mem_at_start, in_mem_used,
    \* the HTTP server: the ServerState (state: in_mem, db; cfg), the locals
    \* of run_query with its position and its response, the channel of the
    \* query, the clock (ms)
    server_state, run, run_chan, run_clock,
    \* history: the data of the partials run_query took, the in-memory result
    \* included
    received,
    \* prune_query: the query, the addresses the bloom filter contains, the
    \* pruned query
    prune_q, prune_filter, pruned

reqVars == <<in_req, in_cfg, required, needed, rq_pc>>
listenVars == <<limit_config, window_num_reqs, last_limit_refresh, now>>
limHist == <<lim_call, admitted_at, resets>>
epVars == <<last_block, job_q, cpc, creq, cres, res_chan, admit, task, outcome, served>>
watchVars == <<wpc, probe, probe_out, probe_chan>>
queryVars == <<provider, query, transaction_set, block_set, query_result, loaded, q_pc>>
handlerHist == <<last_io, in_mem_at_start, in_mem_used>>
handlerVars == <<handler, clock, height, iter, worker, worker_res, channel,
                 stream, in_mem_queries, handlerHist>>
serverVars == <<server_state, run, run_chan, run_clock, received>>
pruneVars == <<prune_q, prune_filter, pruned>>
vars == <<reqVars, listenVars, limHist, epVars, watchVars, queryVars,
          handlerVars, serverVars, pruneVars>>

-----------------------------------------------------------------------------
(* Bounds                                                                  *)

\* block numbers range over 0..MaxBlock
MaxBlock == 1
\* a Batch holds at most MaxBatchLen members
MaxBatchLen == 3
\* SpecLimit: the clock runs over 0..MaxTime (ms)
MaxTime == 4
\* SpecLimit: req_limit ranges over 1..MaxReqLimit
MaxReqLimit == 3
\* SpecLimit: req_limit_window_ms ranges over 1..MaxWindowMs
MaxWindowMs == 2
\* SpecLimit: the requests admitted cost 1..MaxCost
MaxCost == 2
\* Spec: the number of concurrent callers of Endpoint::send
NumCallers == 2
\* Spec: the clock runs over 0..MaxNow (ms)
MaxNow == 2

-----------------------------------------------------------------------------
(* Option<T> and Result<T>                                                 *)

None == [tag |-> "None"]
Some(v) == [tag |-> "Some", v |-> v]
IsSome(o) == o.tag = "Some"

Max(a, b) == IF a >= b THEN a ELSE b
Min(a, b) == IF a <= b THEN a ELSE b

-----------------------------------------------------------------------------
(* RpcRequestImpl and RpcRequest                                           *)

GetBlockNumber == [kind |-> "GetBlockNumber"]
GetBlockByNumber(n) == [kind |-> "GetBlockByNumber", block_number |-> n]
GetTransactionReceipt(n) == [kind |-> "GetTransactionReceipt", block_number |-> n]
GetLogs(f, t) == [kind |-> "GetLogs", from_block |-> f, to_block |-> t]

Single(r) == [tag |-> "Single", reqs |-> <<r>>]
Batch(rs) == [tag |-> "Batch", reqs |-> rs]

BlockNumbers == 0..MaxBlock

\* GetLogs is an inclusive range with from_block <= to_block
RpcRequestImpl ==
    {GetBlockNumber}
    \cup {GetBlockByNumber(n) : n \in BlockNumbers}
    \cup {GetTransactionReceipt(n) : n \in BlockNumbers}
    \cup {GetLogs(p[1], p[2]) :
            p \in {q \in BlockNumbers \X BlockNumbers : q[1] <= q[2]}}

SeqsUpTo(S, n) == UNION {[1..k -> S] : k \in 0..n}

RpcRequest ==
    {Single(r) : r \in RpcRequestImpl}
    \cup {Batch(rs) : rs \in SeqsUpTo(RpcRequestImpl, MaxBatchLen)}

\* LimitConfig (all four fields are NonZero in the source)
LimitConfig(rl, wms, grl, bsl) ==
    [req_limit |-> rl, req_limit_window_ms |-> wms,
     get_logs_range_limit |-> grl, batch_size_limit |-> bsl]

-----------------------------------------------------------------------------
(* Endpoint::calculate_required_last_block                                 *)

calculate_required_last_block_impl(req) ==
    CASE req.kind = "GetLogs" -> Some(req.to_block)
      [] req.kind = "GetBlockNumber" -> None
      [] req.kind = "GetBlockByNumber" -> Some(req.block_number)
      [] req.kind = "GetTransactionReceipt" -> Some(req.block_number)

\* the closure folded over a Batch: (acc, member's requirement) -> acc
\* (a fold that keeps the last requirement instead of the largest)
required_fold_step_last(acc, v) ==
    IF IsSome(v) THEN v ELSE acc

required_fold_step(acc, v) ==
    CASE IsSome(acc) /\ IsSome(v) -> Some(Max(acc.v, v.v))
      [] ~IsSome(acc) -> v
      [] OTHER -> acc

RECURSIVE required_fold(_, _)
required_fold(acc, reqs) ==
    IF reqs = <<>> THEN acc
    ELSE required_fold(
             required_fold_step(acc, calculate_required_last_block_impl(Head(reqs))),
             Tail(reqs))

calculate_required_last_block(req) ==
    IF req.tag = "Single"
    THEN calculate_required_last_block_impl(req.reqs[1])
    ELSE required_fold(None, req.reqs)

-----------------------------------------------------------------------------
(* Listen::calculate_needed_reqs                                           *)

\* NonZeroUsize::new(n).unwrap(): a panic when n = 0
Panic == [tag |-> "Panic"]
Ok(v) == [tag |-> "Ok", v |-> v]
NonZeroUsize_new_unwrap(n) == IF n = 0 THEN Panic ELSE Ok(n)

\* range + range_limit - 1 / range_limit, the division binding first
calculate_needed_reqs_impl_precedence(cfg, req) ==
    IF req.kind = "GetLogs"
    THEN LET range_limit == cfg.get_logs_range_limit
             range == req.to_block - req.from_block + 1
         IN  range + range_limit - (1 \div range_limit)
    ELSE 1

\* the GetLogs arm yields NonZeroUsize::new(num_reqs).unwrap(); num_reqs >= 1
\* whenever from_block <= to_block
calculate_needed_reqs_impl(cfg, req) ==
    IF req.kind = "GetLogs"
    THEN LET range_limit == cfg.get_logs_range_limit
             range == req.to_block - req.from_block + 1
         IN  (range + range_limit - 1) \div range_limit
    ELSE 1

\* batch.iter().fold(1, |acc, req| acc + needed(req) - 1)
RECURSIVE needed_reqs_for_batch(_, _, _)
needed_reqs_for_batch(cfg, acc, batch) ==
    IF batch = <<>> THEN acc
    ELSE needed_reqs_for_batch(
             cfg, acc + calculate_needed_reqs_impl(cfg, Head(batch)) - 1, Tail(batch))

\* the per-chunk fold started from 0 instead of 1
RECURSIVE chunks_sum_from_zero(_, _)
chunks_sum_from_zero(cfg, reqs) ==
    IF reqs = <<>> THEN 0
    ELSE LET n == Min(cfg.batch_size_limit, Len(reqs))
         IN  needed_reqs_for_batch(cfg, 0, SubSeq(reqs, 1, n))
             + chunks_sum_from_zero(cfg, SubSeq(reqs, n + 1, Len(reqs)))

\* reqs.chunks(n).map(needed_reqs_for_batch).sum()
RECURSIVE chunks_sum(_, _)
chunks_sum(cfg, reqs) ==
    IF reqs = <<>> THEN 0
    ELSE LET n == Min(cfg.batch_size_limit, Len(reqs))
         IN  needed_reqs_for_batch(cfg, 1, SubSeq(reqs, 1, n))
             + chunks_sum(cfg, SubSeq(reqs, n + 1, Len(reqs)))

calculate_needed_reqs(cfg, req) ==
    IF req.tag = "Single"
    THEN Ok(calculate_needed_reqs_impl(cfg, req.reqs[1]))
    ELSE NonZeroUsize_new_unwrap(chunks_sum(cfg, req.reqs))

-----------------------------------------------------------------------------
(* SpecReqs: the two pure functions applied to every bounded request       *)

NotRun == [tag |-> "NotRun"]

\* the parts of the state a specification does not use
ReqsUnused ==
    /\ in_req = Single(GetBlockNumber)
    /\ in_cfg = LimitConfig(1, 1, 1, 1)
    /\ required = NotRun
    /\ needed = NotRun
    /\ rq_pc = "unused"

ListenUnused ==
    /\ limit_config = LimitConfig(1, 1, 1, 1)
    /\ window_num_reqs = 0
    /\ last_limit_refresh = 0
    /\ now = 0

LimHistUnused ==
    /\ lim_call = NotRun
    /\ admitted_at = <<>>
    /\ resets = {}

EpUnused ==
    /\ last_block = None
    /\ job_q = <<>>
    /\ cpc = <<>> /\ creq = <<>> /\ cres = <<>>
    /\ res_chan = <<>> /\ admit = <<>> /\ task = <<>> /\ outcome = <<>>
    /\ served = <<>>
    /\ wpc = "unused" /\ probe = "none" /\ probe_out = NotRun
    /\ probe_chan = <<>>

HandlerUnused ==
    /\ handler = NotRun /\ clock = 0 /\ height = NotRun
    /\ iter = NotRun /\ worker = "unused" /\ worker_res = NotRun
    /\ channel = NotRun /\ stream = <<>> /\ in_mem_queries = 0
    /\ last_io = {} /\ in_mem_at_start = NotRun /\ in_mem_used = NotRun

ServerUnused ==
    /\ server_state = NotRun /\ run = NotRun /\ run_chan = NotRun
    /\ run_clock = 0 /\ received = <<>>

PruneUnused ==
    /\ prune_q = NotRun /\ prune_filter = {} /\ pruned = <<>>

QueryUnused ==
    /\ provider = NotRun
    /\ query = NotRun
    /\ transaction_set = {}
    /\ block_set = {}
    /\ query_result = NotRun
    /\ loaded = {}
    /\ q_pc = "unused"

InitReqs ==
    /\ ListenUnused /\ LimHistUnused /\ EpUnused /\ QueryUnused /\ HandlerUnused /\ ServerUnused /\ PruneUnused
    /\ in_req \in RpcRequest
    /\ in_cfg \in {LimitConfig(1, 1, grl, bsl) :
                     grl \in 1..(MaxBlock + 1), bsl \in 1..MaxBatchLen}
    /\ required = NotRun
    /\ needed = NotRun
    /\ rq_pc = "required"

CalcRequired ==
    /\ rq_pc = "required"
    /\ required' = calculate_required_last_block(in_req)
    /\ rq_pc' = "needed"
    /\ UNCHANGED <<in_req, in_cfg, needed, queryVars, handlerVars, serverVars, pruneVars, listenVars, limHist, epVars, watchVars>>

CalcNeeded ==
    /\ rq_pc = "needed"
    /\ needed' = calculate_needed_reqs(in_cfg, in_req)
    /\ rq_pc' = "done"
    /\ UNCHANGED <<in_req, in_cfg, required, queryVars, handlerVars, serverVars, pruneVars, listenVars, limHist, epVars, watchVars>>

NextReqs == CalcRequired \/ CalcNeeded

SpecReqs == InitReqs /\ [][NextReqs]_vars

-----------------------------------------------------------------------------
(* Listen::update_limit                                                    *)

\* the admission test with <= in place of <
update_limit_le(cfg, count, refresh, t, req) ==
    LET needed_reqs == calculate_needed_reqs(cfg, req).v
        elapsed == t - refresh
        refresh1 == IF elapsed >= cfg.req_limit_window_ms THEN t ELSE refresh
        count1 == IF elapsed >= cfg.req_limit_window_ms THEN 0 ELSE count
    IN  IF count1 + needed_reqs <= cfg.req_limit
        THEN [last_limit_refresh |-> refresh1,
              window_num_reqs |-> count1 + needed_reqs, res |-> "Ok"]
        ELSE [last_limit_refresh |-> refresh1,
              window_num_reqs |-> count1, res |-> "EndpointLimitTooLow"]

\* update_limit at instant t on the window (count, refresh): the window
\* after the call and the call's result
update_limit(cfg, count, refresh, t, req) ==
    LET needed_reqs == calculate_needed_reqs(cfg, req).v
        elapsed == t - refresh
        refresh1 == IF elapsed >= cfg.req_limit_window_ms THEN t ELSE refresh
        count1 == IF elapsed >= cfg.req_limit_window_ms THEN 0 ELSE count
    IN  IF count1 + needed_reqs < cfg.req_limit
        THEN [last_limit_refresh |-> refresh1,
              window_num_reqs |-> count1 + needed_reqs, res |-> "Ok"]
        ELSE [last_limit_refresh |-> refresh1,
              window_num_reqs |-> count1, res |-> "EndpointLimitTooLow"]

-----------------------------------------------------------------------------
(* SpecLimit: a Listen built as in tests::test_update_limit, on which      *)
(* update_limit is called with any request at any instant                  *)

\* with batch_size_limit 1 a batch of k GetBlockNumber costs k
LimitReqs ==
    {Single(GetBlockNumber)}
    \cup {Batch([i \in 1..k |-> GetBlockNumber]) : k \in 1..MaxCost}

InitLimit ==
    /\ ReqsUnused /\ EpUnused /\ QueryUnused /\ HandlerUnused /\ ServerUnused /\ PruneUnused
    /\ limit_config \in {LimitConfig(rl, wms, 1, 1) :
                            rl \in 1..MaxReqLimit, wms \in 1..MaxWindowMs}
    /\ window_num_reqs = 0
    /\ last_limit_refresh = 0
    /\ now = 0
    /\ lim_call = NotRun
    /\ admitted_at = [t \in 0..MaxTime |-> 0]
    /\ resets = {}

Tick ==
    /\ now < MaxTime
    /\ now' = now + 1
    /\ UNCHANGED <<limit_config, window_num_reqs, last_limit_refresh, limHist, reqVars, queryVars, handlerVars, serverVars, pruneVars,
                   epVars, watchVars>>

UpdateLimit ==
    \E req \in LimitReqs :
        LET r == update_limit(limit_config, window_num_reqs, last_limit_refresh, now, req)
            cost == calculate_needed_reqs(limit_config, req).v
        IN  /\ window_num_reqs' = r.window_num_reqs
            /\ last_limit_refresh' = r.last_limit_refresh
            /\ lim_call' = [cost |-> cost, at |-> now, res |-> r.res,
                            pre_count |-> window_num_reqs,
                            pre_refresh |-> last_limit_refresh]
            /\ admitted_at' = IF r.res = "Ok"
                              THEN [admitted_at EXCEPT ![now] = @ + cost]
                              ELSE admitted_at
            /\ resets' = IF r.last_limit_refresh # last_limit_refresh
                         THEN resets \cup {now} ELSE resets
            /\ UNCHANGED <<limit_config, now, reqVars, queryVars, handlerVars, serverVars, pruneVars, epVars, watchVars>>

NextLimit == Tick \/ UpdateLimit

SpecLimit == InitLimit /\ [][NextLimit]_vars

-----------------------------------------------------------------------------
(* Endpoint: send, Listen::listen, SendRpcRequest::send, WatchHealth::watch *)

Callers == 1..NumCallers

Err(e) == [tag |-> "Err", e |-> e]

\* a bounded(1) channel: its buffer and whether a Sender is still alive
NewChannel == [buf |-> <<>>, tx |-> "live"]
NoChannel == [buf |-> <<>>, tx |-> "none"]

\* the LimitConfig of the modelled endpoint
EndpointLimit == LimitConfig(2, 2, 1, 1)

\* the requests the callers send: no required tip and cost 1; required tip 1
\* and cost 1; no required tip and cost 2 (never admitted with req_limit 2)
SendReqs ==
    {Single(GetBlockNumber), Single(GetBlockByNumber(1)),
     Batch(<<GetBlockNumber, GetBlockNumber>>)}

\* the tip check with a strict comparison
send_check_strict(req, tip) ==
    LET requirement == calculate_required_last_block(req)
    IN  IF IsSome(requirement)
        THEN IF IsSome(tip) /\ requirement.v < tip.v
             THEN "enqueue" ELSE "EndpointTooBehind"
        ELSE "enqueue"

\* the tip check that opens Endpoint::send
send_check(req, tip) ==
    LET requirement == calculate_required_last_block(req)
    IN  IF IsSome(requirement)
        THEN IF IsSome(tip) /\ requirement.v <= tip.v
             THEN "enqueue" ELSE "EndpointTooBehind"
        ELSE "enqueue"

\* a listener that dispatches the request whatever update_limit returned
listen_spawn_always(res) == "http"

\* the task Listen::listen spawns for a job: the reply of the error, or
\* SendRpcRequest::send
listen_spawn(res) == IF res = "Ok" THEN "http" ELSE "reject"

\* what the HTTP client and the parser can do with a request
HttpResults == {"transport_error", "unparsable_body", "response"}

\* the value SendRpcRequest::send returns
SendRpcRequest_send(http, resp) ==
    CASE http = "transport_error" -> Err("HttpRequest")
      [] http = "unparsable_body" -> Err("InvalidRPCResponse")
      [] OTHER -> Ok(resp)

\* what SendRpcRequest::send leaves of the job's reply channel: the value is
\* returned to the detached task, nothing is sent, and the Sender is
\* dropped with the job
SendRpcRequest_reply(chan, result) == [chan EXCEPT !.tx = "dropped"]

InitWatch ==
    /\ wpc = "round"
    /\ probe = "none"
    /\ probe_out = NotRun
    /\ probe_chan = NoChannel

InitEndpoint ==
    /\ ReqsUnused /\ LimHistUnused /\ QueryUnused /\ HandlerUnused /\ ServerUnused /\ PruneUnused
    /\ limit_config = EndpointLimit
    /\ window_num_reqs = 0
    /\ last_limit_refresh = 0
    /\ now = 0
    /\ job_q = <<>>
    /\ cpc = [c \in Callers |-> "idle"]
    /\ creq = [c \in Callers |-> Single(GetBlockNumber)]
    /\ cres = [c \in Callers |-> NotRun]
    /\ res_chan = [c \in Callers |-> NoChannel]
    /\ admit = [c \in Callers |-> "none"]
    /\ task = [c \in Callers |-> "none"]
    /\ outcome = [c \in Callers |-> NotRun]
    /\ served = <<>>
    /\ InitWatch

\* Endpoint::new
Init ==
    /\ InitEndpoint
    /\ last_block = None

\* the endpoint with any content of the tip cell
InitSend ==
    /\ InitEndpoint
    /\ last_block \in {None} \cup {Some(n) : n \in BlockNumbers}

\* Endpoint::send up to the creation of the reply channel
CallSend(c) ==
    /\ cpc[c] = "idle"
    /\ \E req \in SendReqs :
          /\ creq' = [creq EXCEPT ![c] = req]
          /\ IF send_check(req, last_block) = "EndpointTooBehind"
             THEN /\ cres' = [cres EXCEPT ![c] = Err("EndpointTooBehind")]
                  /\ cpc' = [cpc EXCEPT ![c] = "returned"]
                  /\ UNCHANGED res_chan
             ELSE /\ res_chan' = [res_chan EXCEPT ![c] = NewChannel]
                  /\ cpc' = [cpc EXCEPT ![c] = "send"]
                  /\ UNCHANGED cres
    /\ UNCHANGED <<last_block, job_q, admit, task, outcome, served,
                   listenVars, watchVars, reqVars, queryVars, handlerVars, serverVars, pruneVars, limHist>>

\* self.job_tx.send(Job { res_tx, req }).await on the bounded(1) channel
Enqueue(c) ==
    /\ cpc[c] = "send"
    /\ Len(job_q) < 1
    /\ job_q' = Append(job_q, [id |-> c, req |-> creq[c]])
    /\ cpc' = [cpc EXCEPT ![c] = "recv"]
    /\ UNCHANGED <<last_block, creq, cres, res_chan, admit, task, outcome, served,
                   listenVars, watchVars, reqVars, queryVars, handlerVars, serverVars, pruneVars, limHist>>

\* one iteration of Listen::listen
Listen ==
    /\ job_q # <<>>
    /\ LET job == Head(job_q)
           r == update_limit(limit_config, window_num_reqs, last_limit_refresh,
                             now, job.req)
       IN  /\ window_num_reqs' = r.window_num_reqs
           /\ last_limit_refresh' = r.last_limit_refresh
           /\ admit' = [admit EXCEPT ![job.id] = r.res]
           /\ task' = [task EXCEPT ![job.id] = listen_spawn(r.res)]
    /\ job_q' = Tail(job_q)
    /\ served' = Append(served, Head(job_q).id)
    /\ UNCHANGED <<last_block, cpc, creq, cres, res_chan, outcome,
                   limit_config, now, watchVars, reqVars, queryVars, handlerVars, serverVars, pruneVars, limHist>>

\* the task spawned for a refused job: job.res_tx.send(Err(e)).await.ok()
RejectReply(c) ==
    /\ task[c] = "reject"
    /\ Len(res_chan[c].buf) < 1
    /\ res_chan' = [res_chan EXCEPT
                       ![c] = [buf |-> Append(@.buf, Err(admit[c])), tx |-> "dropped"]]
    /\ task' = [task EXCEPT ![c] = "done"]
    /\ UNCHANGED <<last_block, job_q, cpc, creq, cres, admit, outcome, served,
                   listenVars, watchVars, reqVars, queryVars, handlerVars, serverVars, pruneVars, limHist>>

\* the detached SendRpcRequest::send of an admitted job, run to its end
SendJob(c) ==
    /\ task[c] = "http"
    /\ \E http \in HttpResults :
          LET result == SendRpcRequest_send(http, "response")
          IN  /\ outcome' = [outcome EXCEPT ![c] = result]
              /\ res_chan' = [res_chan EXCEPT ![c] = SendRpcRequest_reply(@, result)]
    /\ task' = [task EXCEPT ![c] = "done"]
    /\ UNCHANGED <<last_block, job_q, cpc, creq, cres, admit, served,
                   listenVars, watchVars, reqVars, queryVars, handlerVars, serverVars, pruneVars, limHist>>

\* res_rx.recv().await.unwrap() in Endpoint::send: a value when one is
\* buffered, a RecvError (and the panic of unwrap) once the channel is
\* empty and its Sender dropped
CallerRecv(c) ==
    /\ cpc[c] = "recv"
    /\ res_chan[c].buf # <<>> \/ res_chan[c].tx = "dropped"
    /\ IF res_chan[c].buf # <<>>
       THEN /\ cres' = [cres EXCEPT ![c] = Head(res_chan[c].buf)]
            /\ res_chan' = [res_chan EXCEPT ![c].buf = Tail(@)]
            /\ cpc' = [cpc EXCEPT ![c] = "returned"]
       ELSE /\ cres' = [cres EXCEPT ![c] = Panic]
            /\ cpc' = [cpc EXCEPT ![c] = "panicked"]
            /\ UNCHANGED res_chan
    /\ UNCHANGED <<last_block, job_q, creq, admit, task, outcome, served,
                   listenVars, watchVars, reqVars, queryVars, handlerVars, serverVars, pruneVars, limHist>>

\* WatchHealth::watch, the head of a round: after the sleep of the round
\* before, create the channel and spawn the GetBlockNumber probe
WatchProbe ==
    /\ wpc \in {"round", "sleep"}
    /\ probe_chan' = NewChannel
    /\ probe' = "http"
    /\ probe_out' = NotRun
    /\ wpc' = "recv"
    /\ UNCHANGED <<epVars, listenVars, reqVars, queryVars, handlerVars, serverVars, pruneVars, limHist>>

\* the detached SendRpcRequest::send of the probe, run to its end
SendProbe ==
    /\ probe = "http"
    /\ \E http \in HttpResults, n \in BlockNumbers :
          LET result == SendRpcRequest_send(http, n)
          IN  /\ probe_out' = result
              /\ probe_chan' = SendRpcRequest_reply(probe_chan, result)
    /\ probe' = "done"
    /\ UNCHANGED <<wpc, epVars, listenVars, reqVars, queryVars, handlerVars, serverVars, pruneVars, limHist>>

\* match res_rx.recv().await.unwrap() { Ok(resp) => .., Err(e) => .. }
WatchRecv ==
    /\ wpc = "recv"
    /\ probe_chan.buf # <<>> \/ probe_chan.tx = "dropped"
    /\ IF probe_chan.buf # <<>>
       THEN /\ last_block' = IF Head(probe_chan.buf).tag = "Ok"
                             THEN Some(Head(probe_chan.buf).v) ELSE None
            /\ probe_chan' = [probe_chan EXCEPT !.buf = Tail(@)]
            /\ wpc' = "sleep"
       ELSE /\ wpc' = "panicked"
            /\ UNCHANGED <<last_block, probe_chan>>
    /\ UNCHANGED <<job_q, cpc, creq, cres, res_chan, admit, task, outcome, served,
                   probe, probe_out, listenVars, reqVars, queryVars, handlerVars, serverVars, pruneVars, limHist>>

Clock ==
    /\ now < MaxNow
    /\ now' = now + 1
    /\ UNCHANGED <<limit_config, window_num_reqs, last_limit_refresh,
                   epVars, watchVars, reqVars, queryVars, handlerVars, serverVars, pruneVars, limHist>>

Next ==
    \/ \E c \in Callers : CallSend(c)
    \/ \E c \in Callers : Enqueue(c)
    \/ Listen
    \/ \E c \in Callers : RejectReply(c)
    \/ \E c \in Callers : SendJob(c)
    \/ \E c \in Callers : CallerRecv(c)
    \/ WatchProbe
    \/ SendProbe
    \/ WatchRecv
    \/ Clock

Spec == Init /\ [][Next]_vars

SpecSend == InitSend /\ [][Next]_vars

-----------------------------------------------------------------------------
(* execute_query: Arrow batches, masks and the kernels of arrow2            *)

\* block numbers of rows and of query ranges are in 0..MaxQBlock (to_block,
\* the exclusive end, is in 1..MaxQBlock + 1)
MaxQBlock == 1
QBlocks == 0..MaxQBlock

\* a cell of an Arrow array: its value slot and its validity bit
Val(x) == [v |-> x, valid |-> TRUE]
\* a null cell of a BinaryArray (empty value slot) and of a UInt8Array
NullBinary == [v |-> "", valid |-> FALSE]
NullU8 == [v |-> 0, valid |-> FALSE]

LogSchema == <<"block_number", "transaction_index", "address",
               "topic0", "topic1", "topic2", "topic3">>
TxSchema == <<"block_number", "transaction_index", "from", "to",
              "sighash", "status">>
BlockSchema == <<"number", "hash">>

\* an ArrowBatch: its schema and its chunk, row by row. A row keeps all the
\* cells of the row of the loaded table it was taken from; the chunk holds
\* of them the cells of the columns of the schema
ArrowBatch(schema, rows) == [schema |-> schema, rows |-> rows]

\* the chunk of a batch, row by row
Chunk(batch) ==
    [i \in 1..Len(batch.rows) |->
        [c \in {batch.schema[j] : j \in DOMAIN batch.schema} |->
            batch.rows[i][c]]]

\* ArrowBatch::column, of a column of the schema
Column(batch, name) == [i \in 1..Len(batch.rows) |-> batch.rows[i][name]]

\* Chunk::len: the length of the first array, 0 for a chunk of no arrays
chunk_len(batch) == IF batch.schema = <<>> THEN 0 ELSE Len(batch.rows)

\* compute::comparison::{gt_eq_scalar, lt_scalar, eq_scalar}: the values
\* are compared slot by slot, the validity is the array's
gt_eq_scalar(col, s) ==
    [i \in DOMAIN col |->
        LET c == col[i] IN [v |-> c.v >= s, valid |-> c.valid]]

lt_scalar(col, s) ==
    [i \in DOMAIN col |->
        LET c == col[i] IN [v |-> c.v < s, valid |-> c.valid]]

eq_scalar(col, s) ==
    [i \in DOMAIN col |->
        LET c == col[i] IN [v |-> c.v = s, valid |-> c.valid]]

\* combine_validities, bit by bit (an absent bitmap is all ones)
combine_validities(left, right) == left /\ right

\* compute::boolean::{and, or}: not Kleene, a result slot is valid only
\* when both operands are
boolean_and(l, r) ==
    [i \in DOMAIN l |->
        LET a == l[i]
            b == r[i]
        IN  [v |-> a.v /\ b.v,
             valid |-> combine_validities(a.valid, b.valid)]]

boolean_or(l, r) ==
    [i \in DOMAIN l |->
        LET a == l[i]
            b == r[i]
        IN  [v |-> a.v \/ b.v,
             valid |-> combine_validities(a.valid, b.valid)]]

set_bool_array(len) == [i \in 1..len |-> [v |-> TRUE, valid |-> TRUE]]

unset_bool_array(len) == [i \in 1..len |-> [v |-> FALSE, valid |-> TRUE]]

in_set_u64(data, set) ==
    [i \in DOMAIN data |->
        LET val == data[i]
        IN  IF val.valid THEN [v |-> val.v \in set, valid |-> TRUE]
            ELSE [v |-> FALSE, valid |-> FALSE]]

in_set_binary(data, set) ==
    [i \in DOMAIN data |->
        LET val == data[i] IN [v |-> val.v \in set, valid |-> val.valid]]

in_set_u64_double(left, right, set) ==
    [i \in DOMAIN left |->
        LET l == left[i]
            r == right[i]
        IN  [v |-> <<l.v, r.v>> \in set,
             valid |-> combine_validities(l.valid, r.valid)]]

\* what compute::filter::filter_chunk makes of slot i of the mask: a chunk of
\* one array goes through filter, which clears the null slots of the mask
\* (values & validity); any other chunk goes through build_filter, which
\* reads the value bit of the slot and not its validity
mask_bit(mask, i, ncols) ==
    LET m == mask[i]
    IN  IF ncols = 1 THEN m.v /\ m.valid ELSE m.v

RECURSIVE take_rows(_, _, _, _)
take_rows(rows, mask, ncols, i) ==
    IF i > Len(rows) THEN <<>>
    ELSE (IF mask_bit(mask, i, ncols) THEN <<rows[i]>> ELSE <<>>)
         \o take_rows(rows, mask, ncols, i + 1)

\* compute::filter::filter_chunk
filter_chunk(batch, mask) ==
    ArrowBatch(batch.schema,
               take_rows(batch.rows, mask, Len(batch.schema), 1))

Range(seq) == {seq[i] : i \in DOMAIN seq}

\* project_batch, for a field selection naming columns of the schema (any
\* other name ends the query with "couldn't find column")
project_batch(batch, field_selection) ==
    ArrowBatch(SelectSeq(batch.schema, LAMBDA c : c \in field_selection),
               batch.rows)

\* the range filter with to_block taken as an inclusive end
build_range_filter_le(block_number, q) ==
    LET range_filter == gt_eq_scalar(block_number, q.from_block)
    IN  IF IsSome(q.to_block)
        THEN boolean_and(range_filter,
                 [i \in DOMAIN block_number |->
                     LET c == block_number[i]
                     IN  [v |-> c.v <= q.to_block.v, valid |-> c.valid]])
        ELSE range_filter

build_range_filter(block_number, q) ==
    LET range_filter == gt_eq_scalar(block_number, q.from_block)
    IN  IF IsSome(q.to_block)
        THEN boolean_and(range_filter, lt_scalar(block_number, q.to_block.v))
        ELSE range_filter

-----------------------------------------------------------------------------
(* execute_query: selections, the three phases                              *)

LogSelection(address, topics) == [address |-> address, topics |-> topics]

TransactionSelection(from, to, sighash, status) ==
    [from |-> from, to |-> to, sighash |-> sighash, status |-> status]

FieldSelection(block, transaction, log) ==
    [block |-> block, transaction |-> transaction, log |-> log]

\* the loop over selection.topics zipped with the four topic columns
RECURSIVE topics_to_filter(_, _, _, _)
topics_to_filter(filter, topics, topic_filters, i) ==
    IF i > Min(Len(topic_filters), Len(topics)) THEN filter
    ELSE topics_to_filter(
             IF topic_filters[i] # {}
             THEN boolean_and(filter, in_set_binary(topics[i], topic_filters[i]))
             ELSE filter,
             topics, topic_filters, i + 1)

\* a selection filter that tests the address axis only
log_selection_to_filter_address_only(address, topics, selection) ==
    IF selection.address # {}
    THEN boolean_and(set_bool_array(Len(address)),
                     in_set_binary(address, selection.address))
    ELSE set_bool_array(Len(address))

log_selection_to_filter(address, topics, selection) ==
    LET filter == set_bool_array(Len(address))
        filter1 == IF selection.address # {}
                   THEN boolean_and(filter, in_set_binary(address, selection.address))
                   ELSE filter
    IN  topics_to_filter(filter1, topics, selection.topics, 1)

RECURSIVE log_selections_fold(_, _, _, _)
log_selections_fold(filter, address, topics, selections) ==
    IF selections = <<>> THEN filter
    ELSE log_selections_fold(
             boolean_or(filter,
                 log_selection_to_filter(address, topics, Head(selections))),
             address, topics, Tail(selections))

log_selections_to_filter(batch, selections) ==
    LET address == Column(batch, "address")
        topics == <<Column(batch, "topic0"), Column(batch, "topic1"),
                    Column(batch, "topic2"), Column(batch, "topic3")>>
    IN  log_selections_fold(unset_bool_array(Len(address)), address, topics,
                            selections)

tx_selection_to_filter(from, to, sighash, status, selection) ==
    LET filter == set_bool_array(Len(from))
        filter1 == IF selection.from # {}
                   THEN boolean_and(filter, in_set_binary(from, selection.from))
                   ELSE filter
        filter2 == IF selection.to # {}
                   THEN boolean_and(filter1, in_set_binary(to, selection.to))
                   ELSE filter1
        filter3 == IF selection.sighash # {}
                   THEN boolean_and(filter2,
                            in_set_binary(sighash, selection.sighash))
                   ELSE filter2
    IN  IF IsSome(selection.status)
        THEN boolean_and(filter3, eq_scalar(status, selection.status.v))
        ELSE filter3

RECURSIVE tx_selections_fold(_, _, _, _, _, _)
tx_selections_fold(filter, from, to, sighash, status, selections) ==
    IF selections = <<>> THEN filter
    ELSE tx_selections_fold(
             boolean_or(filter,
                 tx_selection_to_filter(from, to, sighash, status,
                                        Head(selections))),
             from, to, sighash, status, Tail(selections))

tx_selections_to_filter(batch, selections) ==
    LET from == Column(batch, "from")
    IN  tx_selections_fold(unset_bool_array(Len(from)), from,
            Column(batch, "to"), Column(batch, "sighash"),
            Column(batch, "status"), selections)

\* Vec::push of a batch whose chunk is not empty
push_if_rows(res, batch) ==
    IF chunk_len(batch) > 0 THEN Append(res, batch) ELSE res

\* the values of a column of block numbers, and the pairs of the values of
\* two columns (the unwrap of each cell: the columns hold no null)
unwrap_all(col) == {col[i].v : i \in DOMAIN col}

unwrap_zip(left, right) == {<<left[i].v, right[i].v>> : i \in DOMAIN left}

\* query_logs, the filter of one batch
log_filter(batch, q) ==
    boolean_and(build_range_filter(Column(batch, "block_number"), q),
                log_selections_to_filter(batch, q.logs))

RECURSIVE query_logs(_, _, _, _, _)

\* query_logs, the body of the loop from the filtered batch on
query_logs_filtered(batch, data, q, res, tx_set, blk_set) ==
    query_logs(data, q,
        push_if_rows(res, project_batch(batch, q.field_selection.log)),
        tx_set \cup unwrap_zip(Column(batch, "block_number"),
                               Column(batch, "transaction_index")),
        blk_set \cup unwrap_all(Column(batch, "block_number")))

\* query_logs: the loop over the batches still to do, with res, tx_set and
\* blk_set as the batches done have left them (loaded: the call was made)
query_logs(data, q, res, tx_set, blk_set) ==
    IF data = <<>>
    THEN [res |-> res, tx_set |-> tx_set, blk_set |-> blk_set,
          loaded |-> TRUE]
    ELSE query_logs_filtered(
             filter_chunk(Head(data), log_filter(Head(data), q)),
             Tail(data), q, res, tx_set, blk_set)

\* the filter of a transaction batch with transaction_set left out
tx_filter_selections_only(batch, q, tx_set) ==
    boolean_and(build_range_filter(Column(batch, "block_number"), q),
                tx_selections_to_filter(batch, q.transactions))

\* the filter of a transaction batch with the selections left out
tx_filter_no_selections(batch, q, tx_set) ==
    boolean_or(
        in_set_u64_double(Column(batch, "block_number"),
                          Column(batch, "transaction_index"), tx_set),
        build_range_filter(Column(batch, "block_number"), q))

\* query_transactions, the filter of one batch
tx_filter(batch, q, tx_set) ==
    boolean_or(
        in_set_u64_double(Column(batch, "block_number"),
                          Column(batch, "transaction_index"), tx_set),
        boolean_and(build_range_filter(Column(batch, "block_number"), q),
                    tx_selections_to_filter(batch, q.transactions)))

RECURSIVE query_transactions(_, _, _, _, _)

\* query_transactions, the body of the loop from the filtered batch on
query_transactions_filtered(batch, data, q, res, tx_set, blk_set) ==
    query_transactions(data, q,
        push_if_rows(res, project_batch(batch, q.field_selection.transaction)),
        tx_set,
        blk_set \cup unwrap_all(Column(batch, "block_number")))

query_transactions(data, q, res, tx_set, blk_set) ==
    IF data = <<>>
    THEN [res |-> res, blk_set |-> blk_set, loaded |-> TRUE]
    ELSE query_transactions_filtered(
             filter_chunk(Head(data), tx_filter(Head(data), q, tx_set)),
             Tail(data), q, res, tx_set, blk_set)

\* the filter of a block batch with block_set left out
build_block_filter_range_only(batch, q, blk_set) ==
    build_range_filter(Column(batch, "number"), q)

build_block_filter(batch, q, blk_set) ==
    IF ~q.include_all_blocks
    THEN boolean_and(build_range_filter(Column(batch, "number"), q),
                     in_set_u64(Column(batch, "number"), blk_set))
    ELSE build_range_filter(Column(batch, "number"), q)

RECURSIVE query_blocks(_, _, _, _)
query_blocks(data, q, res, blk_set) ==
    IF data = <<>> THEN [res |-> res, loaded |-> TRUE]
    ELSE query_blocks(Tail(data), q,
             push_if_rows(res,
                 filter_chunk(project_batch(Head(data), q.field_selection.block),
                              build_block_filter(Head(data), q, blk_set))),
             blk_set)

\* DataProvider::load_*: the provider hands out its tables
load_logs(p, ctx) == p.logs
load_transactions(p, ctx) == p.transactions
load_blocks(p, ctx) == p.blocks

QueryContext(q, blk_set, tx_set) ==
    [query |-> q, block_set |-> blk_set, transaction_set |-> tx_set]

QueryResultData(logs, transactions, blocks) ==
    [logs |-> logs, transactions |-> transactions, blocks |-> blocks]

\* what execute_query returns: the QueryResultData, with the QueryContext
\* and the tables loaded from the provider as they are on return
execute_query_result(q, l, t, b) ==
    [data |-> QueryResultData(l.res, t.res, b.res),
     ctx |-> QueryContext(q, t.blk_set, l.tx_set),
     loaded |-> (IF l.loaded THEN {"logs"} ELSE {})
                \cup (IF t.loaded THEN {"transactions"} ELSE {})
                \cup (IF b.loaded THEN {"blocks"} ELSE {})]

\* the blocks phase run on the block_set the logs phase left
execute_query_blocks_before_transactions(p, q, l, t) ==
    execute_query_result(q, l, t,
        IF q.field_selection.block # {}
           /\ (q.include_all_blocks \/ l.blk_set # {})
        THEN query_blocks(
                 load_blocks(p, QueryContext(q, l.blk_set, l.tx_set)),
                 q, <<>>, l.blk_set)
        ELSE [res |-> <<>>, loaded |-> FALSE])

\* execute_query from the blocks phase on: l and t are what the logs phase
\* and the transactions phase left
execute_query_blocks(p, q, l, t) ==
    execute_query_result(q, l, t,
        IF q.field_selection.block # {}
           /\ (q.include_all_blocks \/ t.blk_set # {})
        THEN query_blocks(
                 load_blocks(p, QueryContext(q, t.blk_set, l.tx_set)),
                 q, <<>>, t.blk_set)
        ELSE [res |-> <<>>, loaded |-> FALSE])

\* execute_query from the transactions phase on
execute_query_transactions(p, q, l) ==
    execute_query_blocks(p, q, l,
        IF q.transactions # <<>> \/ l.tx_set # {}
        THEN query_transactions(
                 load_transactions(p, QueryContext(q, l.blk_set, l.tx_set)),
                 q, <<>>, l.tx_set, l.blk_set)
        ELSE [res |-> <<>>, blk_set |-> l.blk_set, loaded |-> FALSE])

execute_query(p, q) ==
    execute_query_transactions(p, q,
        IF q.logs # <<>>
        THEN query_logs(load_logs(p, QueryContext(q, {}, {})), q, <<>>, {}, {})
        ELSE [res |-> <<>>, tx_set |-> {}, blk_set |-> {}, loaded |-> FALSE])

-----------------------------------------------------------------------------
(* execute_query: the tables and the queries it is run on                   *)

\* the rows of the tables: a block holds one transaction, with index 0, and
\* at most one log, of that transaction
LogRow(b, address, topic0) ==
    [block_number |-> Val(b), transaction_index |-> Val(0),
     address |-> address, topic0 |-> topic0,
     topic1 |-> NullBinary, topic2 |-> NullBinary, topic3 |-> NullBinary]

TxRow(b, from, to, sighash, status) ==
    [block_number |-> Val(b), transaction_index |-> Val(0),
     from |-> from, to |-> to, sighash |-> sighash, status |-> status]

BlockRow(n) == [number |-> Val(n), hash |-> Val("H")]

\* the log of a block: none, one of address A and topic0 T, one of address
\* A and no topic0; its transaction: F, a contract creation (no recipient)
\* of status 1, or N, a transfer to G that has no status
LogKinds == {"none", "AT", "A"}
TxKinds == {"F", "N"}

LogRowsOf(kind, b) ==
    CASE kind = "none" -> <<>>
      [] kind = "AT" -> <<LogRow(b, Val("A"), Val("T"))>>
      [] kind = "A" -> <<LogRow(b, Val("A"), NullBinary)>>

TxRowsOf(kind, b) ==
    CASE kind = "F" -> <<TxRow(b, Val("F"), NullBinary, Val("S"), Val(1))>>
      [] kind = "N" -> <<TxRow(b, Val("F"), Val("G"), Val("S"), NullU8)>>

\* the kinds of the log and of the transaction of a block; the blocks of
\* the same parity are of the same kinds
BlockKinds == {<<"none", "F">>, <<"AT", "F">>, <<"A", "N">>, <<"AT", "N">>}
LogKindOf(f, b) == f[b % 2][1]
TxKindOf(f, b) == f[b % 2][2]

batch_or_none(schema, rows) ==
    IF rows = <<>> THEN <<>> ELSE <<ArrowBatch(schema, rows)>>

\* the tables, a batch for every two blocks that hold a row
RECURSIVE LogTable(_, _)
LogTable(f, b) ==
    IF b > MaxQBlock THEN <<>>
    ELSE batch_or_none(LogSchema,
             LogRowsOf(LogKindOf(f, b), b)
             \o (IF b + 1 <= MaxQBlock THEN LogRowsOf(LogKindOf(f, b + 1), b + 1) ELSE <<>>))
         \o LogTable(f, b + 2)

RECURSIVE TxTable(_, _)
TxTable(f, b) ==
    IF b > MaxQBlock THEN <<>>
    ELSE batch_or_none(TxSchema,
             TxRowsOf(TxKindOf(f, b), b)
             \o (IF b + 1 <= MaxQBlock THEN TxRowsOf(TxKindOf(f, b + 1), b + 1) ELSE <<>>))
         \o TxTable(f, b + 2)

RECURSIVE BlockTable(_)
BlockTable(b) ==
    IF b > MaxQBlock THEN <<>>
    ELSE <<ArrowBatch(BlockSchema,
               <<BlockRow(b)>>
               \o (IF b + 1 <= MaxQBlock THEN <<BlockRow(b + 1)>> ELSE <<>>))>>
         \o BlockTable(b + 2)

Providers ==
    {[logs |-> LogTable(f, 0), transactions |-> TxTable(f, 0),
      blocks |-> BlockTable(0)] : f \in [0..1 -> BlockKinds]}

LogSelectionLists ==
    {<<>>,
     <<LogSelection({}, <<{"T"}>>)>>,
     <<LogSelection({"A"}, <<>>), LogSelection({}, <<{"T"}>>)>>}

TransactionSelectionLists ==
    {<<>>,
     <<TransactionSelection({"G"}, {}, {}, None)>>,
     <<TransactionSelection({}, {"F"}, {}, None),
       TransactionSelection({"F"}, {}, {}, Some(1))>>,
     <<TransactionSelection({}, {}, {}, Some(0))>>}

FieldSelections ==
    {FieldSelection(b, t, l) :
        b \in {{}, {"number"}},
        t \in {{}, {"block_number", "from"}},
        l \in {{}, {"block_number", "address"}}}

\* include_all_blocks is read by the blocks phase only, which needs a block
\* field selection: it is varied for the queries that have one
AllBlocksFlags(fs) == IF fs.block = {} THEN {FALSE} ELSE BOOLEAN

Query(from_block, to_block, logs, transactions, field_selection, all) ==
    [from_block |-> from_block, to_block |-> to_block, logs |-> logs,
     transactions |-> transactions, field_selection |-> field_selection,
     include_all_blocks |-> all]

Queries ==
    UNION {{Query(fb, tb, ls, ts, fs, all) :
               fb \in QBlocks,
               tb \in {None} \cup {Some(n) : n \in 1..(MaxQBlock + 1)},
               ls \in LogSelectionLists, ts \in TransactionSelectionLists,
               all \in AllBlocksFlags(fs)} : fs \in FieldSelections}

InitQuery ==
    /\ ReqsUnused /\ ListenUnused /\ LimHistUnused /\ EpUnused
    /\ HandlerUnused /\ ServerUnused /\ PruneUnused
    /\ provider \in Providers
    /\ query \in Queries
    /\ transaction_set = {}
    /\ block_set = {}
    /\ query_result = NotRun
    /\ loaded = {}
    /\ q_pc = "call"

ExecuteQuery ==
    /\ q_pc = "call"
    /\ LET r == execute_query(provider, query)
       IN  /\ query_result' = Ok(r.data)
           /\ loaded' = r.loaded
           /\ transaction_set' = r.ctx.transaction_set
           /\ block_set' = r.ctx.block_set
    /\ q_pc' = "done"
    /\ UNCHANGED <<provider, query, reqVars, listenVars, limHist, epVars, watchVars,
                   handlerVars, serverVars, pruneVars>>

NextQuery == ExecuteQuery

SpecQuery == InitQuery /\ [][NextQuery]_vars

-----------------------------------------------------------------------------
(* Handler: the state it reads, archive_height, prune_query                *)

\* blocks written to the db, in folders; blocks of the in-memory buffer;
\* the time a query may take; the blocks archive_height is asked about
MaxFolders == 2
MaxInMemLen == 2
MaxElapsedMs == 1
MaxHeight == 7

\* InMemory: the buffer holds the blocks from_block..to_block - 1
InMemory(from_block, to_block) ==
    [from_block |-> from_block, to_block |-> to_block]

\* FolderIndex; address_filter is the set of the addresses whose hash the
\* bloom filter contains
FolderIndex(block_range, address_filter, row_group_index_offset) ==
    [block_range |-> block_range, address_filter |-> address_filter,
     row_group_index_offset |-> row_group_index_offset]

\* the db: folder i holds block i - 1; next_block_num is the block after
\* the last folder
Db(filters) ==
    [folders |-> [i \in DOMAIN filters |->
                     FolderIndex(<<i - 1, i>>, filters[i], i)],
     next_block_num |-> Len(filters)]

Handler(in_mem, db, time_limit_ms) ==
    [state |-> [in_mem |-> in_mem, db |-> db],
     cfg |-> [time_limit_ms |-> time_limit_ms]]

\* Db::iterate_folder_indices: the folders that overlap the range, in the
\* order of their blocks
iterate_folder_indices(db, from, to) ==
    SelectSeq(db.folders,
              LAMBDA f : /\ f.block_range[2] > from
                         /\ IsSome(to) => f.block_range[1] < to.v)

\* Handler::archive_height; next_block_num is what db.next_block_num()
\* returns when it is called
archive_height(h, next_block_num) ==
    IF h.state.in_mem.to_block > 0
    THEN Ok(Some(h.state.in_mem.to_block - 1))
    ELSE IF next_block_num.tag = "Err"
    THEN Err("get next block num from db")
    ELSE IF next_block_num.v > 0 THEN Ok(Some(next_block_num.v - 1))
    ELSE Ok(None)

\* prune_addrs with a selection kept when none of its addresses is left
prune_addrs_keep_empty(addrs, filter) == Some(addrs \cap filter)

\* prune_addrs with a selection of no address dropped
prune_addrs_no_wildcard(addrs, filter) ==
    IF addrs \cap filter = {} THEN None ELSE Some(addrs \cap filter)

\* prune_query, the closure prune_addrs
prune_addrs(addrs, filter) ==
    IF addrs # {}
    THEN (IF addrs \cap filter = {} THEN None ELSE Some(addrs \cap filter))
    ELSE Some({})

prune_query(q, filter) ==
    [q EXCEPT
        !.logs =
            LET kept == SelectSeq(q.logs,
                            LAMBDA s : IsSome(prune_addrs(s.address, filter)))
            IN  [i \in DOMAIN kept |->
                    [kept[i] EXCEPT
                        !.address = prune_addrs(kept[i].address, filter).v]],
        !.transactions =
            LET kept == SelectSeq(q.transactions,
                            LAMBDA s : /\ IsSome(prune_addrs(s.from, filter))
                                       /\ IsSome(prune_addrs(s.to, filter)))
            IN  [i \in DOMAIN kept |->
                    [kept[i] EXCEPT
                        !.from = prune_addrs(kept[i].from, filter).v,
                        !.to = prune_addrs(kept[i].to, filter).v]]]

-----------------------------------------------------------------------------
(* Handler::handle: QueryResultIterator::next, the worker, the channel      *)

\* what the two data providers hand out: of each block lo..hi - 1 a log of
\* address A and topic0 T, its transaction and the block
ChainData(lo, hi) ==
    [logs |-> batch_or_none(LogSchema,
                  [i \in 1..(hi - lo) |-> LogRow(lo + i - 1, Val("A"), Val("T"))]),
     transactions |-> batch_or_none(TxSchema,
                  [i \in 1..(hi - lo) |->
                      TxRow(lo + i - 1, Val("F"), NullBinary, Val("S"), Val(1))]),
     blocks |-> batch_or_none(BlockSchema,
                  [i \in 1..(hi - lo) |-> BlockRow(lo + i - 1)])]

InMemDataProvider(in_mem) == ChainData(in_mem.from_block, in_mem.to_block)
ParquetDataProvider(block_range) == ChainData(block_range[1], block_range[2])

QueryResult(data, next_block) == [data |-> data, next_block |-> next_block]

\* what a call of next gives: the iterator as the call leaves it, the item,
\* whether the in-memory provider was queried; what it read of the folder
\* (the row group index, the Parquet files) and the in-memory buffer it
\* loaded, both none unless set
NextReturn(it, item, in_mem_queried) ==
    [iter |-> it, item |-> item, in_mem_queried |-> in_mem_queried,
     io |-> {}, in_mem |-> None]

\* what fails in a call of next: nothing, the read of the folder index, the
\* read of the row group index, or the execution
IoOutcomes == {"ok", "folder_index", "row_group_index", "execute_query"}

\* the in-memory result with the first block of the query as next_block
next_in_mem_from_block(it, h, io) ==
    NextReturn(it,
        Some(Ok(QueryResult(QueryResultData(<<>>, <<>>, <<>>),
                            it.query.from_block))),
        TRUE)

\* next, the arm of an exhausted folder iterator, with the range of the
\* query left unchecked
next_in_mem_unchecked(it, h, io) ==
    NextReturn(it,
        Some(IF io = "execute_query"
             THEN Err("execute in memory query")
             ELSE Ok(QueryResult(
                      execute_query(InMemDataProvider(h.state.in_mem),
                                    it.query).data,
                      h.state.in_mem.to_block))),
        TRUE)

\* next, the arm of a folder iterator that is exhausted
next_in_mem_loaded(it, in_mem, io) ==
    IF IsSome(it.query.to_block) /\ it.query.to_block.v <= in_mem.from_block
    THEN NextReturn(it, None, FALSE)
    ELSE IF it.query.from_block >= in_mem.to_block
    THEN NextReturn(it, None, FALSE)
    ELSE NextReturn(it,
             Some(IF io = "execute_query"
                  THEN Err("execute in memory query")
                  ELSE Ok(QueryResult(
                           execute_query(InMemDataProvider(in_mem),
                                         it.query).data,
                           in_mem.to_block))),
             TRUE)

next_in_mem(it, h, io) ==
    [next_in_mem_loaded(it, h.state.in_mem, io)
        EXCEPT !.in_mem = Some(h.state.in_mem)]

\* next, from the pruned query on, with every folder read and executed
next_pruned_no_short_circuit(it, folder_index, pruned_query, io) ==
    IF io = "row_group_index"
    THEN [NextReturn(it, Some(Err("read row group index")), FALSE)
             EXCEPT !.io = {"row_group_index"}]
    ELSE [NextReturn(it,
             Some(IF io = "execute_query" THEN Err("execute_query")
                  ELSE Ok(QueryResult(
                           execute_query(
                               ParquetDataProvider(folder_index.block_range),
                               pruned_query).data,
                           folder_index.block_range[2]))),
             FALSE)
             EXCEPT !.io = {"row_group_index", "parquet"}]

\* next, from the pruned query on
next_pruned(it, folder_index, pruned_query, io) ==
    IF /\ pruned_query.logs = <<>>
       /\ pruned_query.transactions = <<>>
       /\ ~pruned_query.include_all_blocks
    THEN NextReturn(it,
             Some(Ok(QueryResult(QueryResultData(<<>>, <<>>, <<>>),
                                 folder_index.block_range[2]))),
             FALSE)
    ELSE IF io = "row_group_index"
    THEN [NextReturn(it, Some(Err("read row group index")), FALSE)
             EXCEPT !.io = {"row_group_index"}]
    ELSE [NextReturn(it,
             Some(IF io = "execute_query" THEN Err("execute_query")
                  ELSE Ok(QueryResult(
                           execute_query(
                               ParquetDataProvider(folder_index.block_range),
                               pruned_query).data,
                           folder_index.block_range[2]))),
             FALSE)
             EXCEPT !.io = {"row_group_index", "parquet"}]

\* QueryResultIterator::next without the time limit
next_no_time_limit(it, h, t, io) ==
    IF it.finished THEN NextReturn(it, None, FALSE)
    ELSE IF it.folder_index_iterator = <<>>
    THEN next_in_mem([it EXCEPT !.finished = TRUE], h, io)
    ELSE IF io = "folder_index"
    THEN NextReturn([it EXCEPT !.folder_index_iterator = Tail(@)],
                    Some(Err("failed to read folder index")), FALSE)
    ELSE next_pruned([it EXCEPT !.folder_index_iterator = Tail(@)],
                     Head(it.folder_index_iterator),
                     prune_query(it.query,
                                 Head(it.folder_index_iterator).address_filter),
                     io)

\* QueryResultIterator::next at the instant t
next(it, h, t, io) ==
    IF it.finished THEN NextReturn(it, None, FALSE)
    ELSE IF t - it.start_time >= h.cfg.time_limit_ms
    THEN NextReturn([it EXCEPT !.finished = TRUE], None, FALSE)
    ELSE IF it.folder_index_iterator = <<>>
    THEN next_in_mem([it EXCEPT !.finished = TRUE], h, io)
    ELSE IF io = "folder_index"
    THEN NextReturn([it EXCEPT !.folder_index_iterator = Tail(@)],
                    Some(Err("failed to read folder index")), FALSE)
    ELSE next_pruned([it EXCEPT !.folder_index_iterator = Tail(@)],
                     Head(it.folder_index_iterator),
                     prune_query(it.query,
                                 Head(it.folder_index_iterator).address_filter),
                     io)

-----------------------------------------------------------------------------
(* The handlers and the queries handle is called with                      *)

\* the in-memory buffer is the tail of the db: it starts at the block after
\* the last folder, and is empty or holds MaxInMemLen blocks
Handlers ==
    {Handler(InMemory(Len(filters), Len(filters) + n), Db(filters), t) :
        filters \in UNION {[1..k -> {{}, {"A"}}] : k \in 0..MaxFolders},
        n \in {0, MaxInMemLen}, t \in 1..MaxElapsedMs}

\* the selections and include_all_blocks of the queries: nothing to prune
\* and nothing to execute, an address to prune, all blocks asked for
HandlerSelections ==
    {<<<<>>, FALSE>>, <<<<LogSelection({"A"}, <<>>)>>, FALSE>>,
     <<<<LogSelection({"A"}, <<>>)>>, TRUE>>}

HandlerQueries ==
    {Query(fb, tb, sel[1], <<>>,
           FieldSelection({"number"}, {}, {"block_number", "address"}), sel[2]) :
        fb \in 0..(MaxFolders + 1),
        tb \in {None} \cup {Some(n) : n \in 1..(MaxFolders + MaxInMemLen)},
        sel \in HandlerSelections}

\* any buffer and any db, as archive_height may be given them
InitHeight ==
    /\ ReqsUnused /\ ListenUnused /\ LimHistUnused /\ EpUnused /\ QueryUnused
    /\ ServerUnused /\ PruneUnused
    /\ \E to_block \in 0..MaxHeight, next_block_num \in 0..MaxHeight :
          handler = Handler(InMemory(0, to_block),
                            [folders |-> <<>>,
                             next_block_num |-> next_block_num], 1)
    /\ clock = 0 /\ height = NotRun
    /\ iter = NotRun /\ worker = "unused" /\ worker_res = NotRun
    /\ channel = NotRun /\ stream = <<>> /\ in_mem_queries = 0
    /\ last_io = {} /\ in_mem_at_start = NotRun /\ in_mem_used = NotRun

ArchiveHeight ==
    /\ height = NotRun
    /\ \E next_block_num \in {Ok(handler.state.db.next_block_num), Err("db")} :
          height' = archive_height(handler, next_block_num)
    /\ UNCHANGED <<handler, clock, iter, worker, worker_res, channel, stream,
                   in_mem_queries, handlerHist, reqVars, listenVars, limHist, epVars,
                   watchVars, queryVars,
                   serverVars, pruneVars>>

NextHeight == ArchiveHeight

SpecHeight == InitHeight /\ [][NextHeight]_vars

InitHandler ==
    /\ ReqsUnused /\ ListenUnused /\ LimHistUnused /\ EpUnused /\ QueryUnused
    /\ ServerUnused /\ PruneUnused
    /\ handler \in Handlers
    /\ clock = 0 /\ height = NotRun
    /\ iter = NotRun /\ worker = "unused" /\ worker_res = NotRun
    /\ channel = NotRun /\ stream = <<>> /\ in_mem_queries = 0
    /\ last_io = {} /\ in_mem_at_start = NotRun /\ in_mem_used = NotRun

\* Handler::handle: the channel, the folder index iterator, and the worker
\* with its QueryResultIterator; a db that fails gives no channel
Handle ==
    /\ worker = "unused"
    /\ \E q \in HandlerQueries, db_ok \in BOOLEAN :
          IF db_ok
          THEN /\ iter' = [finished |-> FALSE, start_time |-> clock, query |-> q,
                           folder_index_iterator |->
                               iterate_folder_indices(handler.state.db,
                                   q.from_block, q.to_block)]
               /\ channel' = [buf |-> <<>>, rx |-> TRUE, tx |-> TRUE]
               /\ worker' = "next"
          ELSE /\ worker' = "failed"
               /\ UNCHANGED <<iter, channel>>
    /\ in_mem_at_start' = handler.state.in_mem
    /\ UNCHANGED <<handler, clock, height, worker_res, stream, in_mem_queries,
                   last_io, in_mem_used,
                   reqVars, listenVars, limHist, epVars, watchVars, queryVars,
                   serverVars, pruneVars>>

\* the worker's loop, `for res in iter`: one call of next; at None the loop
\* ends and the sender is dropped
WorkerNext ==
    /\ worker = "next"
    /\ \E io \in IoOutcomes :
          LET r == next(iter, handler, clock, io)
          IN  /\ iter' = r.iter
              /\ in_mem_queries' =
                    in_mem_queries + (IF r.in_mem_queried THEN 1 ELSE 0)
              /\ last_io' = r.io
              /\ in_mem_used' = IF IsSome(r.in_mem) THEN r.in_mem.v
                                 ELSE in_mem_used
              /\ IF IsSome(r.item)
                 THEN /\ worker_res' = r.item.v
                      /\ worker' = "send"
                      /\ channel' = channel
                 ELSE /\ worker_res' = NotRun
                      /\ worker' = "done"
                      /\ channel' = [channel EXCEPT !.tx = FALSE]
    /\ UNCHANGED <<handler, clock, height, stream, in_mem_at_start, reqVars,
                   listenVars, limHist, epVars, watchVars, queryVars,
                   serverVars, pruneVars>>

\* the worker's loop without the break after an Err that was sent
WorkerSendNoBreakOnErr ==
    /\ worker = "send"
    /\ IF ~channel.rx
       THEN /\ worker' = "done"
            /\ channel' = [channel EXCEPT !.tx = FALSE]
            /\ stream' = stream
       ELSE /\ Len(channel.buf) < 1
            /\ stream' = Append(stream, worker_res)
            /\ worker' = "next"
            /\ channel' = [channel EXCEPT !.buf = Append(@, worker_res)]
    /\ worker_res' = NotRun
    /\ UNCHANGED <<handler, clock, height, iter, in_mem_queries, handlerHist,
                   reqVars, listenVars, limHist, epVars, watchVars, queryVars,
                   serverVars, pruneVars>>

\* the worker's loop with a channel that always has room
WorkerSendUnbounded ==
    /\ worker = "send"
    /\ IF ~channel.rx
       THEN /\ worker' = "done"
            /\ channel' = [channel EXCEPT !.tx = FALSE]
            /\ stream' = stream
       ELSE /\ stream' = Append(stream, worker_res)
            /\ IF worker_res.tag = "Err"
               THEN /\ worker' = "done"
                    /\ channel' = [channel EXCEPT !.buf = Append(@, worker_res),
                                            !.tx = FALSE]
               ELSE /\ worker' = "next"
                    /\ channel' = [channel EXCEPT !.buf = Append(@, worker_res)]
    /\ worker_res' = NotRun
    /\ UNCHANGED <<handler, clock, height, iter, in_mem_queries, handlerHist,
                   reqVars, listenVars, limHist, epVars, watchVars, queryVars,
                   serverVars, pruneVars>>

\* the worker's loop, tx.blocking_send(res): it waits for room in the
\* channel of capacity 1, fails when the receiver is gone; the loop ends
\* after a failed send and after an Err that was sent
WorkerSend ==
    /\ worker = "send"
    /\ IF ~channel.rx
       THEN /\ worker' = "done"
            /\ channel' = [channel EXCEPT !.tx = FALSE]
            /\ stream' = stream
       ELSE /\ Len(channel.buf) < 1
            /\ stream' = Append(stream, worker_res)
            /\ IF worker_res.tag = "Err"
               THEN /\ worker' = "done"
                    /\ channel' = [channel EXCEPT !.buf = Append(@, worker_res),
                                            !.tx = FALSE]
               ELSE /\ worker' = "next"
                    /\ channel' = [channel EXCEPT !.buf = Append(@, worker_res)]
    /\ worker_res' = NotRun
    /\ UNCHANGED <<handler, clock, height, iter, in_mem_queries, handlerHist,
                   reqVars,
                   listenVars, limHist, epVars, watchVars, queryVars,
                   serverVars, pruneVars>>

\* the caller of handle takes an item from the receiver
Recv ==
    /\ channel # NotRun
    /\ channel.rx
    /\ channel.buf # <<>>
    /\ channel' = [channel EXCEPT !.buf = Tail(@)]
    /\ UNCHANGED <<handler, clock, height, iter, worker, worker_res, stream,
                   in_mem_queries, handlerHist, reqVars, listenVars, limHist, epVars,
                   watchVars, queryVars,
                   serverVars, pruneVars>>

\* the caller of handle drops the receiver
DropReceiver ==
    /\ channel # NotRun
    /\ channel.rx
    /\ channel' = [channel EXCEPT !.rx = FALSE, !.buf = <<>>]
    /\ UNCHANGED <<handler, clock, height, iter, worker, worker_res, stream,
                   in_mem_queries, handlerHist, reqVars, listenVars, limHist, epVars,
                   watchVars, queryVars,
                   serverVars, pruneVars>>

\* a millisecond passes; the worker reads the clock in next only
TickMs ==
    /\ worker = "next"
    /\ clock < MaxElapsedMs
    /\ clock' = clock + 1
    /\ UNCHANGED <<handler, height, iter, worker, worker_res, channel, stream,
                   in_mem_queries, handlerHist, reqVars, listenVars, limHist, epVars,
                   watchVars, queryVars,
                   serverVars, pruneVars>>

\* the ingest pipeline publishes a new snapshot of the in-memory buffer
\* while a query runs: the buffer with one more block
SwapInMem ==
    /\ worker \in {"next", "send"}
    /\ handler.state.in_mem.to_block - handler.state.in_mem.from_block
          < MaxInMemLen
    /\ handler' = [handler EXCEPT !.state.in_mem.to_block = @ + 1]
    /\ UNCHANGED <<clock, height, iter, worker, worker_res, channel, stream,
                   in_mem_queries, handlerHist, reqVars, listenVars, limHist,
                   epVars, watchVars, queryVars, serverVars, pruneVars>>

NextHandler ==
    \/ Handle
    \/ WorkerNext
    \/ WorkerSend
    \/ Recv
    \/ DropReceiver
    \/ TickMs
    \/ SwapInMem

SpecHandler == InitHandler /\ [][NextHandler]_vars

-----------------------------------------------------------------------------
(* SpecPrune: prune_query on every bounded query and bloom filter, and on   *)
(* its own result                                                          *)

\* selections of a kind in a query; calls of prune_query in a row
MaxPruneLen == 2
MaxPrunes == 2

PruneAddrs == {"A", "F", "G"}

PruneLogSelections ==
    {LogSelection(a, <<{"T"}>>) : a \in {{}, {"A"}, {"A", "F"}}}

PruneTransactionSelections ==
    {TransactionSelection(f, t, {"S"}, Some(1)) :
        f \in {{}, {"F"}, {"A", "F"}}, t \in {{}, {"G"}}}

PruneQueries ==
    {Query(0, None, ls, ts,
           FieldSelection({"number"}, {"block_number", "from"},
                          {"block_number", "address"}), all) :
        ls \in SeqsUpTo(PruneLogSelections, MaxPruneLen),
        ts \in {<<>>} \cup {<<s>> : s \in PruneTransactionSelections}
               \cup {<<s, TransactionSelection({"G"}, {}, {}, None)>> :
                        s \in PruneTransactionSelections},
        all \in BOOLEAN}

InitPrune ==
    /\ ReqsUnused /\ ListenUnused /\ LimHistUnused /\ EpUnused /\ QueryUnused
    /\ HandlerUnused /\ ServerUnused
    /\ prune_q \in PruneQueries
    /\ prune_filter \in SUBSET PruneAddrs
    /\ pruned = <<>>

\* prune_query on the query, then on what it returned
PruneQuery ==
    /\ Len(pruned) < MaxPrunes
    /\ pruned' = Append(pruned,
                    prune_query(IF pruned = <<>> THEN prune_q
                                ELSE pruned[Len(pruned)], prune_filter))
    /\ UNCHANGED <<prune_q, prune_filter, reqVars, listenVars, limHist, epVars,
                   watchVars, queryVars, handlerVars, serverVars>>

NextPrune == PruneQuery

SpecPrune == InitPrune /\ [][NextPrune]_vars

-----------------------------------------------------------------------------
(* The HTTP server: get_archive_height, extend_bytes_with_data, run_query   *)

\* partials the db sends for a query; milliseconds a response may take
MaxPartials == 3
MaxResponseMs == 1

MEGABYTES == 1024 * 1024

ServerState(in_mem, next_block_num, size_limit_mb, time_limit_ms) ==
    [state |-> [in_mem |-> in_mem, db |-> [next_block_num |-> next_block_num]],
     cfg |-> [response_size_limit_mb |-> size_limit_mb,
              response_time_limit_ms |-> time_limit_ms]]

\* get_archive_height; db_max is what db.get_next_block_num() returns
get_archive_height(state, db_max) ==
    IF db_max.tag = "Err" THEN Err("get next block num from db")
    ELSE Ok(IF db_max.v = 0 /\ state.in_mem.to_block = 0
            THEN None
            ELSE Some(Max(db_max.v, state.in_mem.to_block) - 1))

\* a RecordBatch: its rows, the bytes their JSON takes, whether its binary
\* columns are hex strings
RecordBatch(rows, json_len) == [rows |-> rows, json_len |-> json_len, hex |-> FALSE]

hex_encode_batch(batch) == [batch EXCEPT !.hex = TRUE]

hex_encode_data(res) ==
    QueryResultData(
        [i \in DOMAIN res.logs |-> hex_encode_batch(res.logs[i])],
        [i \in DOMAIN res.transactions |-> hex_encode_batch(res.transactions[i])],
        [i \in DOMAIN res.blocks |-> hex_encode_batch(res.blocks[i])])

\* the body is a sequence of pieces: literals, and the JSON arrays of the
\* rows of record batches; len is the number of bytes of a piece
Lit(s) == [lit |-> s, len |-> Len(s), rows |-> <<>>]

RECURSIVE json_rows_len(_)
json_rows_len(batches) ==
    IF batches = <<>> THEN 0
    ELSE Head(batches).json_len + json_rows_len(Tail(batches))

\* serde_json::to_vec(record_batches_to_json_rows(batches))
json_rows(batches) ==
    [lit |-> "json_rows", len |-> 2 + json_rows_len(batches), rows |-> batches]

\* bytes.len()
RECURSIVE bytes_len(_)
bytes_len(bytes) ==
    IF bytes = <<>> THEN 0 ELSE Head(bytes).len + bytes_len(Tail(bytes))

\* what fails in extend_bytes_with_data: nothing, hex_encode_data, or
\* record_batches_to_json_rows
EncodeOutcomes == {"ok", "hex_encode", "serialize"}

extend_member(bytes, put_comma, key, batches) ==
    IF batches # <<>>
    THEN (IF put_comma THEN Append(bytes, Lit(",")) ELSE bytes)
            \o <<Lit(key), json_rows(batches)>>
    ELSE bytes

\* extend_bytes_with_data: the bytes as it leaves them, and whether it wrote
\* any data
extend_bytes_with_data(bytes, data, io) ==
    IF data.logs = <<>> /\ data.transactions = <<>> /\ data.blocks = <<>>
    THEN Ok([bytes |-> bytes, wrote |-> FALSE])
    ELSE IF io = "hex_encode" THEN Err("hex encode the data")
    ELSE IF io = "serialize" THEN Err("serialize arrow into json")
    ELSE Ok([bytes |->
                Append(
                    extend_member(
                        extend_member(
                            extend_member(Append(bytes, Lit("{")), FALSE,
                                "\"logs\":", hex_encode_data(data).logs),
                            data.logs # <<>>,
                            "\"transactions\":",
                            hex_encode_data(data).transactions),
                        data.logs # <<>> \/ data.transactions # <<>>,
                        "\"blocks\":", hex_encode_data(data).blocks),
                    Lit("}")),
             wrote |-> TRUE])

\* the locals of run_query, its position and its response
RunQueryLocals(q, data_state, query_start, archive_height_v) ==
    [pc |-> "recv", query |-> q, data_state |-> data_state,
     query_start |-> query_start, height |-> archive_height_v,
     bytes |-> <<Lit("{\"data\":[")>>, next_block |-> 0,
     put_comma |-> FALSE, hit_limit |-> FALSE, in_mem_queried |-> FALSE,
     response |-> NotRun]

\* run_query returns an error
run_query_err(r, e) == [r EXCEPT !.pc = "done", !.response = Err(e)]

\* run_query, the body of its loop with the item res, at the instant t
run_query_recv(r, res, cfg, t, io) ==
    LET bytes == IF r.put_comma THEN Append(r.bytes, Lit(",")) ELSE r.bytes
        ext == extend_bytes_with_data(bytes, res.v.data, io)
        limit == \/ bytes_len(ext.v.bytes)
                       >= cfg.response_size_limit_mb * MEGABYTES
                 \/ t - r.query_start >= cfg.response_time_limit_ms
    IN  IF res.tag = "Err" THEN run_query_err(r, "execute parquet query")
        ELSE IF ext.tag = "Err" THEN run_query_err(r, ext.e)
        ELSE [r EXCEPT !.bytes = ext.v.bytes,
                       !.put_comma = ext.v.wrote,
                       !.next_block = res.v.next_block,
                       !.hit_limit = limit,
                       !.pc = IF limit THEN "after_loop" ELSE "recv"]

\* run_query, the end: write! and the response
run_query_respond(r, t) ==
    [r EXCEPT !.pc = "done",
              !.response = Ok([body |-> Append(r.bytes, Lit("]")),
                               archiveHeight |-> r.height,
                               nextBlock |-> r.next_block,
                               totalTime |-> t - r.query_start])]

\* run_query after its loop, from the in-memory query on; in_mem_res is
\* what query_mem returns
run_query_mem(r, in_mem_res, t, io) ==
    LET bytes == IF r.put_comma THEN Append(r.bytes, Lit(",")) ELSE r.bytes
        ext == extend_bytes_with_data(bytes, in_mem_res.v, io)
        q == [r EXCEPT !.in_mem_queried = TRUE]
    IN  IF in_mem_res.tag = "Err"
        THEN run_query_err(q, "query in memory data")
        ELSE IF ext.tag = "Err" THEN run_query_err(q, ext.e)
        ELSE run_query_respond(
                [q EXCEPT
                    !.bytes = ext.v.bytes,
                    !.next_block =
                        IF IsSome(r.query.to_block)
                        THEN Min(r.data_state.in_mem.to_block,
                                 r.query.to_block.v)
                        ELSE r.data_state.in_mem.to_block], t)

\* run_query after its loop, with the in-memory query run after a limit too
run_query_in_mem_after_limit(r, in_mem_res, t, io) ==
    IF /\ r.next_block >= r.data_state.in_mem.from_block
       /\ r.next_block <= r.data_state.in_mem.to_block
    THEN run_query_mem(r, in_mem_res, t, io)
    ELSE run_query_respond(r, t)

\* run_query after its loop
run_query_in_mem(r, in_mem_res, t, io) ==
    IF /\ ~r.hit_limit
       /\ r.next_block >= r.data_state.in_mem.from_block
       /\ r.next_block <= r.data_state.in_mem.to_block
    THEN run_query_mem(r, in_mem_res, t, io)
    ELSE run_query_respond(r, t)

-----------------------------------------------------------------------------
(* SpecServer: one call of run_query, the db that sends the partials        *)

\* the in-memory buffer is the tail of the db
ServerStates ==
    {ServerState(InMemory(n, n + len), n, mb, ms) :
        n \in 0..1, len \in {0, 2}, mb \in 0..1, ms \in 1..(MaxResponseMs + 1)}

ServerQueries ==
    {Query(fb, tb, <<>>, <<>>, FieldSelection({}, {}, {}), FALSE) :
        fb \in 0..1, tb \in {None, Some(2)}}

\* the data of a partial: nothing; logs; transactions and blocks; all
\* three, with logs of a megabyte
ServerData ==
    {QueryResultData(<<>>, <<>>, <<>>),
     QueryResultData(<<RecordBatch("l", 2)>>, <<>>, <<>>),
     QueryResultData(<<>>, <<RecordBatch("t", 2)>>, <<RecordBatch("b", 2)>>),
     QueryResultData(<<RecordBatch("L", MEGABYTES)>>, <<RecordBatch("t", 2)>>,
                     <<RecordBatch("b", 2)>>)}

InitServer ==
    /\ ReqsUnused /\ ListenUnused /\ LimHistUnused /\ EpUnused /\ QueryUnused
    /\ HandlerUnused /\ PruneUnused
    /\ server_state \in ServerStates
    /\ run = NotRun /\ run_chan = NotRun /\ run_clock = 0 /\ received = <<>>

\* run_query up to its loop: the channel, the snapshot of the state, the
\* task of db.query, the archive height
RunQuery ==
    /\ run = NotRun
    /\ \E q \in ServerQueries,
          db_max \in {Ok(server_state.state.db.next_block_num), Err("db")} :
          LET h == get_archive_height(server_state.state, db_max)
          IN  IF h.tag = "Err"
              THEN /\ run' = run_query_err(
                                RunQueryLocals(q, server_state.state,
                                               run_clock, None), h.e)
                   /\ run_chan' = [buf |-> <<>>, rx |-> FALSE, tx |-> TRUE]
              ELSE /\ run' = RunQueryLocals(q, server_state.state, run_clock,
                                            h.v)
                   /\ run_chan' = [buf |-> <<>>, rx |-> TRUE, tx |-> TRUE]
    /\ UNCHANGED <<server_state, run_clock, received, reqVars, listenVars,
                   limHist, epVars, watchVars, queryVars, handlerVars,
                   pruneVars>>

\* db.query sends a partial, or an error and ends; the k-th partial has
\* next_block = from_block + k; a send on a channel without receiver fails
\* and ends db.query
DbSend ==
    /\ run_chan # NotRun
    /\ run_chan.tx
    /\ IF ~run_chan.rx
       THEN run_chan' = [run_chan EXCEPT !.tx = FALSE]
       ELSE /\ Len(run_chan.buf) < 1
            /\ Len(received) < MaxPartials
            /\ \/ \E data \in ServerData :
                    run_chan' = [run_chan EXCEPT !.buf =
                        <<Ok(QueryResult(data,
                              run.query.from_block + Len(received) + 1))>>]
               \/ run_chan' = [run_chan EXCEPT !.buf = <<Err("db")>>,
                                               !.tx = FALSE]
    /\ UNCHANGED <<server_state, run, run_clock, received, reqVars, listenVars,
                   limHist, epVars, watchVars, queryVars, handlerVars,
                   pruneVars>>

\* db.query ends
DbDone ==
    /\ run_chan # NotRun
    /\ run_chan.tx
    /\ run_chan' = [run_chan EXCEPT !.tx = FALSE]
    /\ UNCHANGED <<server_state, run, run_clock, received, reqVars, listenVars,
                   limHist, epVars, watchVars, queryVars, handlerVars,
                   pruneVars>>

\* run_query, one turn of `while let Some(res) = rx.recv().await`
RunQueryRecv ==
    /\ run # NotRun
    /\ run.pc = "recv"
    /\ run_chan.buf # <<>>
    /\ \E io \in EncodeOutcomes :
          run' = run_query_recv(run, Head(run_chan.buf), server_state.cfg,
                                run_clock, io)
    /\ run_chan' = IF run'.pc = "done"
                   THEN [run_chan EXCEPT !.buf = <<>>, !.rx = FALSE]
                   ELSE [run_chan EXCEPT !.buf = Tail(@)]
    /\ received' = IF run'.pc = "done" THEN received
                   ELSE Append(received, Head(run_chan.buf).v.data)
    /\ UNCHANGED <<server_state, run_clock, reqVars, listenVars, limHist,
                   epVars, watchVars, queryVars, handlerVars, pruneVars>>

\* run_query, rx.recv() gives None: the channel is empty and its sender gone
RunQueryRecvNone ==
    /\ run # NotRun
    /\ run.pc = "recv"
    /\ run_chan.buf = <<>>
    /\ ~run_chan.tx
    /\ run' = [run EXCEPT !.pc = "after_loop"]
    /\ UNCHANGED <<server_state, run_chan, run_clock, received, reqVars,
                   listenVars, limHist, epVars, watchVars, queryVars,
                   handlerVars, pruneVars>>

\* run_query from the drop of rx on: the in-memory query, the response
RunQueryFinish ==
    /\ run # NotRun
    /\ run.pc = "after_loop"
    /\ \E in_mem_res \in {Ok(d) : d \in ServerData} \cup {Err("query_mem")},
          io \in EncodeOutcomes :
          /\ run' = run_query_in_mem(run, in_mem_res, run_clock, io)
          /\ received' = IF run'.in_mem_queried /\ run'.response.tag = "Ok"
                         THEN Append(received, in_mem_res.v)
                         ELSE received
    /\ run_chan' = [run_chan EXCEPT !.buf = <<>>, !.rx = FALSE]
    /\ UNCHANGED <<server_state, run_clock, reqVars, listenVars, limHist,
                   epVars, watchVars, queryVars, handlerVars, pruneVars>>

\* a millisecond passes while run_query is in its loop
TickServer ==
    /\ run # NotRun
    /\ run.pc = "recv"
    /\ run_clock < MaxResponseMs
    /\ run_clock' = run_clock + 1
    /\ UNCHANGED <<server_state, run, run_chan, received, reqVars, listenVars,
                   limHist, epVars, watchVars, queryVars, handlerVars,
                   pruneVars>>

NextServer ==
    \/ RunQuery
    \/ DbSend
    \/ DbDone
    \/ RunQueryRecv
    \/ RunQueryRecvNone
    \/ RunQueryFinish
    \/ TickServer

SpecServer == InitServer /\ [][NextServer]_vars

-----------------------------------------------------------------------------
(* Reference definitions for the claims on the request functions           *)

SetMax(S) == CHOOSE x \in S : \A y \in S : y <= x

\* ceil(a / b) for a >= 0, b >= 1: the least k with k * b >= a
CeilDiv(a, b) == CHOOSE k \in 0..a : k * b >= a /\ \A j \in 0..a : j * b >= a => k <= j

RECURSIVE SumSeq(_)
SumSeq(ns) == IF ns = <<>> THEN 0 ELSE Head(ns) + SumSeq(Tail(ns))

\* the required tips of the members that have one
MemberTips(req) ==
    {req.reqs[i].to_block :
        i \in {j \in 1..Len(req.reqs) : req.reqs[j].kind = "GetLogs"}}
    \cup {req.reqs[i].block_number :
        i \in {j \in 1..Len(req.reqs) :
                 req.reqs[j].kind \in {"GetBlockByNumber", "GetTransactionReceipt"}}}

LogRange(m) == IF m.kind = "GetLogs" THEN m.to_block - m.from_block + 1 ELSE 0

MemberCost(cfg, m) ==
    IF m.kind = "GetLogs" THEN CeilDiv(LogRange(m), cfg.get_logs_range_limit) ELSE 1

NumChunks(cfg, req) == CeilDiv(Len(req.reqs), cfg.batch_size_limit)

\* chunk k (1-based) holds the members (k-1)*n+1 .. min(k*n, len)
ChunkCost(cfg, req, k) ==
    LET n == cfg.batch_size_limit
        lo == (k - 1) * n + 1
        hi == Min(k * n, Len(req.reqs))
    IN  1 + SumSeq([i \in 1..(hi - lo + 1) |-> MemberCost(cfg, req.reqs[lo + i - 1]) - 1])

RefCost(cfg, req) ==
    IF req.tag = "Single"
    THEN MemberCost(cfg, req.reqs[1])
    ELSE SumSeq([k \in 1..NumChunks(cfg, req) |-> ChunkCost(cfg, req, k)])

TotalLogRange(req) == SumSeq([i \in 1..Len(req.reqs) |-> LogRange(req.reqs[i])])

NumGetLogs(req) == Cardinality({i \in 1..Len(req.reqs) : req.reqs[i].kind = "GetLogs"})

-----------------------------------------------------------------------------
(* Claims on the request functions (SpecReqs)                              *)

\* C7: the required tip of a request is to_block for GetLogs, the block
\* number for GetBlockByNumber and GetTransactionReceipt, none for
\* GetBlockNumber; for a batch it is the maximum over the members that have
\* one, and none iff no member has one, whatever the members' order.
C7_RequiredTip ==
    rq_pc \in {"needed", "done"} =>
        IF MemberTips(in_req) = {}
        THEN required = None
        ELSE required = Some(SetMax(MemberTips(in_req)))

\* a batch whose largest requirement comes first, followed by a member with
\* none and by a smaller one
C7_Witness ==
    /\ rq_pc = "done"
    /\ in_req = Batch(<<GetBlockByNumber(1), GetBlockNumber, GetLogs(0, 0)>>)
    /\ required = Some(1)

\* C8: needed_reqs is 1 for a single non-GetLogs request, ceil((to - from +
\* 1) / get_logs_range_limit) for a single GetLogs, and for a batch the sum
\* over consecutive chunks of batch_size_limit members of 1 + sum(member
\* cost - 1).  (A batch without members has no cost: the function panics.)
C8_NeededReqs ==
    (rq_pc = "done" /\ Len(in_req.reqs) > 0) =>
        needed = Ok(RefCost(in_cfg, in_req))

\* three GetLogs of two blocks each with range limit 1, split in chunks of 2:
\* (1 + 1 + 1) + (1 + 1) = 5
C8_Witness ==
    /\ rq_pc = "done"
    /\ in_req = Batch(<<GetLogs(0, 1), GetLogs(0, 1), GetLogs(0, 1)>>)
    /\ in_cfg.get_logs_range_limit = 1
    /\ in_cfg.batch_size_limit = 2
    /\ needed = Ok(5)

\* C9 as stated: for every non-empty batch needed_reqs >= 1 and needed_reqs
\* >= ceil(total_log_range / get_logs_range_limit).
C9_SummedRangeBound ==
    (rq_pc = "done" /\ in_req.tag = "Batch" /\ Len(in_req.reqs) > 0) =>
        /\ needed.tag = "Ok"
        /\ needed.v >= 1
        /\ needed.v >= CeilDiv(TotalLogRange(in_req), in_cfg.get_logs_range_limit)

\* C9 amended: for every non-empty batch needed_reqs >= 1, needed_reqs >=
\* the cost of each member taken alone, and needed_reqs + (g - k) >=
\* ceil(total_log_range / get_logs_range_limit), g the number of GetLogs
\* members and k the number of chunks.
C9_LowerBound ==
    (rq_pc = "done" /\ in_req.tag = "Batch" /\ Len(in_req.reqs) > 0) =>
        /\ needed.tag = "Ok"
        /\ needed.v >= 1
        /\ \A i \in 1..Len(in_req.reqs) : needed.v >= MemberCost(in_cfg, in_req.reqs[i])
        /\ needed.v + NumGetLogs(in_req) - NumChunks(in_cfg, in_req)
               >= CeilDiv(TotalLogRange(in_req), in_cfg.get_logs_range_limit)

\* three GetLogs of one block each in one chunk with range limit 2: the
\* batch costs 1 while the summed range, 3 blocks, would need 2
C9_Witness ==
    /\ rq_pc = "done"
    /\ in_req = Batch(<<GetLogs(0, 0), GetLogs(1, 1), GetLogs(0, 0)>>)
    /\ in_cfg.get_logs_range_limit = 2
    /\ in_cfg.batch_size_limit = 3
    /\ needed = Ok(1)

-----------------------------------------------------------------------------
(* Claims on the rate window (SpecLimit)                                   *)

\* the cost admitted at the instants t .. t + w - 1
AdmittedIn(t, w) ==
    SumSeq([i \in 1..w |-> IF t + i - 1 \in DOMAIN admitted_at
                           THEN admitted_at[t + i - 1] ELSE 0])

\* C3: admit with cost c first resets the window (window_start = now, count
\* = 0) when the time since window_start is >= req_limit_window_ms, then
\* admits iff count + c < req_limit; an admitted request adds exactly c to
\* count, a refused one adds nothing.
C3_Admit ==
    lim_call # NotRun =>
        LET reset == lim_call.at - lim_call.pre_refresh >= limit_config.req_limit_window_ms
            count == IF reset THEN 0 ELSE lim_call.pre_count
        IN  /\ last_limit_refresh = IF reset THEN lim_call.at ELSE lim_call.pre_refresh
            /\ lim_call.res = "Ok" <=> count + lim_call.cost < limit_config.req_limit
            /\ lim_call.res # "Ok" => lim_call.res = "EndpointLimitTooLow"
            /\ window_num_reqs = IF lim_call.res = "Ok" THEN count + lim_call.cost ELSE count

\* a call that reset a used window and was refused, leaving count at 0
C3_Witness ==
    /\ lim_call # NotRun
    /\ lim_call.pre_count > 0
    /\ lim_call.at - lim_call.pre_refresh >= limit_config.req_limit_window_ms
    /\ lim_call.res = "EndpointLimitTooLow"
    /\ window_num_reqs = 0
    /\ last_limit_refresh = lim_call.at

\* C4 as stated: the cost admitted inside any interval of length W, aligned
\* with window_start or not, is strictly less than L.
C4_AnyInterval ==
    \A t \in 0..MaxTime :
        AdmittedIn(t, limit_config.req_limit_window_ms) < limit_config.req_limit

\* C4 amended: the cost admitted inside an interval of length W during which
\* the window is not reset is strictly less than L (so is the cost admitted
\* since window_start, which is count); an interval that straddles a reset
\* holds at most 2 (L - 1).
C4_WithinWindow ==
    /\ window_num_reqs < limit_config.req_limit
    /\ AdmittedIn(last_limit_refresh, MaxTime + 1) = window_num_reqs
    /\ \A t \in 0..MaxTime :
          LET w == limit_config.req_limit_window_ms
          IN  /\ (\A r \in resets : ~(t < r /\ r < t + w)) =>
                     AdmittedIn(t, w) < limit_config.req_limit
              /\ AdmittedIn(t, w) <= 2 * (limit_config.req_limit - 1)

\* an interval of length W that straddles a reset and holds 2 (L - 1) >= L
C4_Witness ==
    \E t \in 0..MaxTime :
        /\ \E r \in resets : t < r /\ r < t + limit_config.req_limit_window_ms
        /\ AdmittedIn(t, limit_config.req_limit_window_ms)
               = 2 * (limit_config.req_limit - 1)
        /\ limit_config.req_limit >= 2

-----------------------------------------------------------------------------
(* Claims on the endpoint (Spec, SpecSend)                                 *)

\* C1: every job the listener admits gets its outcome on the reply channel
\* (the parsed response, HttpRequest or InvalidRPCResponse), so the caller
\* blocked in Endpoint::send receives it: once the job's SendRpcRequest has
\* run, its outcome is buffered in the reply channel or already returned to
\* the caller, and the caller never fails on a closed channel.
C1_AdmittedJobReplied ==
    \A c \in Callers :
        admit[c] = "Ok" =>
            /\ cpc[c] # "panicked"
            /\ task[c] = "done" =>
                   \/ res_chan[c].buf = <<outcome[c]>>
                   \/ (cpc[c] = "returned" /\ cres[c] = outcome[c])

\* C2: the watcher runs in rounds for ever; after every completed probe the
\* tip is the outcome of that probe, Some(number) on success and None on
\* failure.
C2_TipFollowsProbe ==
    /\ wpc # "panicked"
    /\ wpc = "sleep" =>
           last_block = IF probe_out.tag = "Ok" THEN Some(probe_out.v) ELSE None

\* the request has a required tip and the tip cell holds None or less
TooBehind(req, tip) ==
    /\ MemberTips(req) # {}
    /\ (tip = None \/ tip.v < SetMax(MemberTips(req)))

\* C5: Endpoint::send fails with EndpointTooBehind exactly when the request
\* has a required tip and the tip is None or less than it, and then neither
\* the job queue nor the rate window (nor any task) is touched; any other
\* request, one with no required tip included, goes on to be enqueued.
C5_TooBehind ==
    [][\A c \in Callers :
          (cpc[c] = "idle" /\ cpc'[c] # "idle") =>
              /\ (cpc'[c] = "returned" /\ cres'[c] = Err("EndpointTooBehind"))
                     <=> TooBehind(creq'[c], last_block)
              /\ TooBehind(creq'[c], last_block) =>
                     UNCHANGED <<job_q, res_chan, admit, task, served, listenVars>>
              /\ ~TooBehind(creq'[c], last_block) =>
                     (cpc'[c] = "send" /\ res_chan'[c] = NewChannel)]_vars

\* with tip 0: a request that requires tip 1 has failed, and a batch of only
\* GetBlockNumber is in the job queue
C5_Witness ==
    /\ last_block = Some(0)
    /\ creq[1] = Single(GetBlockByNumber(1))
    /\ cpc[1] = "returned" /\ cres[1] = Err("EndpointTooBehind")
    /\ job_q = <<[id |-> 2, req |-> Batch(<<GetBlockNumber, GetBlockNumber>>)]>>

\* C6: a job whose admission fails is completed with EndpointLimitTooLow on
\* its reply channel, no SendRpcRequest is dispatched for it, and the
\* listener stays ready to serve the next job.
C6_RefusedJob ==
    /\ \A c \in Callers :
          admit[c] = "EndpointLimitTooLow" =>
              /\ task[c] \in {"reject", "done"}
              /\ outcome[c] = NotRun
              /\ cpc[c] # "panicked"
              /\ task[c] = "done" =>
                     \/ res_chan[c].buf = <<Err("EndpointLimitTooLow")>>
                     \/ (cpc[c] = "returned" /\ cres[c] = Err("EndpointLimitTooLow"))
    /\ job_q # <<>> => ENABLED Listen

\* the first job was refused and its caller has the error; the listener then
\* served, and admitted, the second
C6_Witness ==
    /\ served = <<1, 2>>
    /\ admit[1] = "EndpointLimitTooLow"
    /\ cpc[1] = "returned" /\ cres[1] = Err("EndpointLimitTooLow")
    /\ admit[2] = "Ok"
    /\ task[2] = "http"

-----------------------------------------------------------------------------
(* Claims on execute_query                                                 *)

\* the rows that the batches of a result hold
EmittedRows(batches) == UNION {Range(batches[i].rows) : i \in DOMAIN batches}

InQueryRange(n) ==
    /\ query.from_block <= n
    /\ IsSome(query.to_block) => n < query.to_block.v

\* C10: every row execute_query returns is in the block range of the query:
\* from_block <= number and, when to_block is present, number < to_block,
\* for block rows by number and for log and transaction rows by
\* block_number, the transactions returned only for being named by
\* transaction_set included.
C10_RowsInRange ==
    q_pc = "done" =>
        /\ \A r \in EmittedRows(query_result.v.logs) :
              InQueryRange(r.block_number.v)
        /\ \A r \in EmittedRows(query_result.v.transactions) :
              InQueryRange(r.block_number.v)
        /\ \A r \in EmittedRows(query_result.v.blocks) :
              InQueryRange(r.number.v)

\* a bounded range that leaves a log, a transaction and a block outside; no
\* transaction selection, so the returned transaction is there for being
\* named by transaction_set; a log, a transaction and a block are returned
C10_Witness ==
    /\ q_pc = "done"
    /\ IsSome(query.to_block)
    /\ query.transactions = <<>>
    /\ \E b \in QBlocks :
          /\ ~InQueryRange(b)
          /\ \E i \in DOMAIN provider.logs :
                \E r \in Range(provider.logs[i].rows) : r.block_number.v = b
          /\ \E i \in DOMAIN provider.transactions :
                \E r \in Range(provider.transactions[i].rows) :
                    r.block_number.v = b
    /\ EmittedRows(query_result.v.logs) # {}
    /\ \E r \in EmittedRows(query_result.v.transactions) :
          <<r.block_number.v, r.transaction_index.v>> \in transaction_set
    /\ EmittedRows(query_result.v.blocks) # {}

\* the cell holds a value and the axis, when it is not empty, contains it
AxisContains(axis, cell) == axis # {} => cell.valid /\ cell.v \in axis

TopicColumns == <<"topic0", "topic1", "topic2", "topic3">>

SatisfiesLogSelection(row, selection) ==
    /\ AxisContains(selection.address, row.address)
    /\ \A i \in 1..Min(Len(selection.topics), Len(TopicColumns)) :
          AxisContains(selection.topics[i], row[TopicColumns[i]])

SatisfiesSomeLogSelection(row) ==
    \E i \in DOMAIN query.logs : SatisfiesLogSelection(row, query.logs[i])

\* the rows of a table of the provider
LoadedRows(table) == UNION {Range(table[i].rows) : i \in DOMAIN table}

\* C11: every log row execute_query returns satisfies at least one
\* LogSelection of the query, each non-empty axis of which contains the
\* row's value; with no LogSelection in the query no log row is returned and
\* the log table is not loaded.
C11_LogsSelected ==
    q_pc = "done" =>
        /\ \A r \in EmittedRows(query_result.v.logs) :
              SatisfiesSomeLogSelection(r)
        /\ query.logs = <<>> =>
              /\ query_result.v.logs = <<>>
              /\ "logs" \notin loaded

\* a log row is returned, and a log row of the query range that satisfies no
\* selection is not
C11_Witness ==
    /\ q_pc = "done"
    /\ EmittedRows(query_result.v.logs) # {}
    /\ \E r \in LoadedRows(provider.logs) :
          /\ InQueryRange(r.block_number.v)
          /\ ~SatisfiesSomeLogSelection(r)
          /\ r \notin EmittedRows(query_result.v.logs)

SatisfiesTxSelection(row, selection) ==
    /\ AxisContains(selection.from, row.from)
    /\ AxisContains(selection.to, row.to)
    /\ AxisContains(selection.sighash, row.sighash)
    /\ IsSome(selection.status) =>
          row.status.valid /\ row.status.v = selection.status.v

SatisfiesSomeTxSelection(row) ==
    \E i \in DOMAIN query.transactions :
        SatisfiesTxSelection(row, query.transactions[i])

\* the pair that names the transaction of a log row or a transaction row
TxKey(row) == <<row.block_number.v, row.transaction_index.v>>

\* C12: every transaction row execute_query returns satisfies some
\* TransactionSelection of the query, or has the (block_number,
\* transaction_index) of a log row returned in the logs of the same result,
\* whatever the field selection, an empty field_selection.log included.
C12_TxSelectedOrLogged ==
    q_pc = "done" =>
        \A t \in EmittedRows(query_result.v.transactions) :
            \/ SatisfiesSomeTxSelection(t)
            \/ \E l \in EmittedRows(query_result.v.logs) : TxKey(l) = TxKey(t)

\* a loaded log row that is in the query range and satisfies a LogSelection
LogRowMatches(l) ==
    InQueryRange(l.block_number.v) /\ SatisfiesSomeLogSelection(l)

\* C13: every block row execute_query returns has the number of the block of
\* a log row or of a transaction row returned in the same result, unless
\* the query has include_all_blocks, whatever the field selection, an empty
\* field_selection.log or field_selection.transaction included.
C13_BlocksOfEmittedRows ==
    q_pc = "done" =>
        \A b \in EmittedRows(query_result.v.blocks) :
            \/ query.include_all_blocks
            \/ \E r \in EmittedRows(query_result.v.logs)
                        \cup EmittedRows(query_result.v.transactions) :
                  r.block_number.v = b.number.v

\* C13, amended: every block row execute_query returns has the number of the
\* block of a log row or transaction row that survived the filter of its
\* phase (the blocks of these rows are block_set), unless the query has
\* include_all_blocks; with a log and a transaction field selection that are
\* not empty such a row is in the same result.
C13_BlocksOfSurvivingRows ==
    q_pc = "done" =>
        \A b \in EmittedRows(query_result.v.blocks) :
            \/ query.include_all_blocks
            \/ /\ b.number.v \in block_set
               /\ (query.field_selection.log # {}
                   /\ query.field_selection.transaction # {}) =>
                     \E r \in EmittedRows(query_result.v.logs)
                                \cup EmittedRows(query_result.v.transactions) :
                         r.block_number.v = b.number.v

\* no log field and no transaction field is selected, nothing but a block is
\* returned, and another block of the query range is not
C13_Witness ==
    /\ q_pc = "done"
    /\ ~query.include_all_blocks
    /\ query.field_selection.log = {}
    /\ query.field_selection.transaction = {}
    /\ query_result.v.logs = <<>>
    /\ query_result.v.transactions = <<>>
    /\ EmittedRows(query_result.v.blocks) # {}
    /\ \E b \in LoadedRows(provider.blocks) :
          /\ InQueryRange(b.number.v)
          /\ b \notin EmittedRows(query_result.v.blocks)


\* a cell of from, to, sighash or status of the transaction row is null
HasNullCell(t) ==
    ~t.from.valid \/ ~t.to.valid \/ ~t.sighash.valid \/ ~t.status.valid

\* C14: with a transaction field selection that is not empty, every loaded
\* transaction row that has the (block_number, transaction_index) of a log
\* row of the query range that satisfies a LogSelection is returned, whether
\* the query has no TransactionSelection or none that the row satisfies, and
\* whichever cells of the row are null.
C14_LoggedTxEmitted ==
    (q_pc = "done" /\ query.field_selection.transaction # {}) =>
        \A l \in LoadedRows(provider.logs) :
            LogRowMatches(l) =>
                \A t \in LoadedRows(provider.transactions) :
                    TxKey(t) = TxKey(l) =>
                        t \in EmittedRows(query_result.v.transactions)

\* a transaction with a null cell is returned for its log, under a
\* TransactionSelection list that is not empty and that it does not satisfy
C14_Witness ==
    /\ q_pc = "done"
    /\ query.transactions # <<>>
    /\ \E t \in EmittedRows(query_result.v.transactions) :
          /\ HasNullCell(t)
          /\ ~t.status.valid
          /\ ~SatisfiesSomeTxSelection(t)
          /\ \E i \in DOMAIN query.transactions :
                IsSome(query.transactions[i].status)
          /\ \E l \in LoadedRows(provider.logs) :
                LogRowMatches(l) /\ TxKey(l) = TxKey(t)


\* row i of the batch is kept by the mask, as filter_chunk reads the mask
KeptByMask(batch, mask, i) == mask_bit(mask, i, Len(batch.schema))

\* C15: a row of a log batch is kept by the selections mask exactly when it
\* satisfies some LogSelection of the list, in all its non-empty axes,
\* whatever the other selections make of the row and of its null cells; so
\* an empty list keeps no row. The same holds of a row of a transaction
\* batch and the TransactionSelections, over from, to, sighash and status.
C15_SelectionSemantics ==
    q_pc = "done" =>
        /\ \A n \in DOMAIN provider.logs :
              \A i \in DOMAIN provider.logs[n].rows :
                  KeptByMask(provider.logs[n],
                             log_selections_to_filter(provider.logs[n],
                                                      query.logs), i)
                  <=> SatisfiesSomeLogSelection(provider.logs[n].rows[i])
        /\ \A n \in DOMAIN provider.transactions :
              \A i \in DOMAIN provider.transactions[n].rows :
                  KeptByMask(provider.transactions[n],
                             tx_selections_to_filter(provider.transactions[n],
                                                     query.transactions), i)
                  <=> SatisfiesSomeTxSelection(provider.transactions[n].rows[i])


\* the block is that of a row that survived the filter of the logs phase or
\* of the transactions phase
BlockOfSurvivingRow(n) ==
    \/ n \in block_set
    \/ \E l \in LoadedRows(provider.logs) :
          LogRowMatches(l) /\ l.block_number.v = n
    \/ \E t \in LoadedRows(provider.transactions) :
          /\ t.block_number.v = n
          /\ \/ InQueryRange(n) /\ SatisfiesSomeTxSelection(t)
             \/ \E l \in LoadedRows(provider.logs) :
                   LogRowMatches(l) /\ TxKey(l) = TxKey(t)

\* C16: the blocks phase runs after the logs and the transactions phase and
\* sees the whole block_set: with a block field selection that is not empty,
\* every loaded block row of the query range that is the block of a
\* surviving log row or transaction row is returned, and with
\* include_all_blocks every loaded block row of the query range; the block
\* table is not loaded and no block is returned when the block field
\* selection is empty, or block_set is empty and include_all_blocks is off.
C16_BlocksPhase ==
    q_pc = "done" =>
        /\ query.field_selection.block # {} =>
              \A b \in LoadedRows(provider.blocks) :
                  (/\ InQueryRange(b.number.v)
                   /\ query.include_all_blocks
                      \/ BlockOfSurvivingRow(b.number.v)) =>
                      b \in EmittedRows(query_result.v.blocks)
        /\ (\/ query.field_selection.block = {}
            \/ block_set = {} /\ ~query.include_all_blocks) =>
              /\ "blocks" \notin loaded
              /\ query_result.v.blocks = <<>>

\* a block is returned for a transaction that satisfies a
\* TransactionSelection and that no log names, and another block of the
\* query range is not returned
C16_Witness ==
    /\ q_pc = "done"
    /\ ~query.include_all_blocks
    /\ \E b \in EmittedRows(query_result.v.blocks) :
          /\ \A l \in LoadedRows(provider.logs) :
                LogRowMatches(l) => l.block_number.v # b.number.v
          /\ \E t \in LoadedRows(provider.transactions) :
                /\ t.block_number.v = b.number.v
                /\ SatisfiesSomeTxSelection(t)
    /\ \E b \in LoadedRows(provider.blocks) :
          /\ InQueryRange(b.number.v)
          /\ b \notin EmittedRows(query_result.v.blocks)


-----------------------------------------------------------------------------
(* Claims on the handler (SpecHeight, SpecHandler)                         *)

\* C17: archive_height returns Some(max(in_mem.to_block,
\* db.next_block_num) - 1) for every pair of values that are not both zero,
\* and None when both are zero.
C17_ArchiveHeightIsMax ==
    height.tag = "Ok" =>
        height.v =
            IF /\ handler.state.in_mem.to_block = 0
               /\ handler.state.db.next_block_num = 0
            THEN None
            ELSE Some(Max(handler.state.in_mem.to_block,
                          handler.state.db.next_block_num) - 1)


\* the Ok items sent on the channel so far, in the order sent
OkResults == SelectSeq(stream, LAMBDA item : item.tag = "Ok")

\* C18: the Ok QueryResults that handle puts on the stream have ascending
\* next_block: no folder result is below the one before it, and the
\* in-memory result is not below the last folder result.
C18_AscendingNextBlock ==
    \A i, j \in DOMAIN OkResults :
        i < j => OkResults[i].v.next_block <= OkResults[j].v.next_block

\* two folder results and the in-memory result were sent
C18_Witness ==
    /\ Len(OkResults) = 3
    /\ in_mem_queries = 1
    /\ worker = "next"

\* the in-memory buffer overlaps the range of the query
OverlapsInMem ==
    /\ ~(IsSome(iter.query.to_block)
         /\ iter.query.to_block.v <= handler.state.in_mem.from_block)
    /\ ~(iter.query.from_block >= handler.state.in_mem.to_block)

\* the time budget of the query is used up
TimeExceeded == clock - iter.start_time >= handler.cfg.time_limit_ms

\* C19: the in-memory provider is queried at most once for a query, only
\* once the folder iterator is exhausted, and, in the call of next that
\* finds it exhausted, exactly when the range of the query overlaps the
\* in-memory buffer and the time budget is not used up; from that call on
\* the iterator is finished, every later call of next returns None, and
\* nothing but the in-memory result is sent.
C19_InMemOnceAtEnd ==
    [][/\ in_mem_queries' <= 1
       /\ in_mem_queries' = 1 =>
             /\ iter'.finished
             /\ iter'.folder_index_iterator = <<>>
       /\ in_mem_queries' # in_mem_queries =>
             /\ worker = "next"
             /\ ~iter.finished
             /\ iter.folder_index_iterator = <<>>
       /\ (/\ worker = "next"
           /\ ~iter.finished
           /\ iter.folder_index_iterator = <<>>
           /\ iter'.finished) =>
             (in_mem_queries' = in_mem_queries + 1
              <=> (OverlapsInMem /\ ~TimeExceeded))
       /\ (worker = "next" /\ iter.finished) =>
             (worker' = "next" \/ worker' = "done")
       /\ (in_mem_queries = 1 /\ worker # "send") => stream' = stream
      ]_vars

\* the in-memory result was sent after a folder result, and the worker has
\* left its loop
C19_Witness ==
    /\ in_mem_queries = 1
    /\ Len(stream) >= 2
    /\ worker = "done"
    /\ channel.rx

\* C20: the in-memory result has next_block = in_mem.to_block when the query
\* has no to_block, and min(in_mem.to_block, query.to_block) when it has.
C20_InMemNextBlockCapped ==
    (worker = "send" /\ in_mem_queries = 1 /\ worker_res.tag = "Ok") =>
        worker_res.v.next_block =
            IF IsSome(iter.query.to_block)
            THEN Min(in_mem_used.to_block, iter.query.to_block.v)
            ELSE in_mem_used.to_block

\* the worker is about to call next, and the call will take a folder
AtFolder ==
    /\ worker = "next"
    /\ ~iter.finished
    /\ ~TimeExceeded
    /\ iter.folder_index_iterator # <<>>

\* the query that is left of the worker's query for the folder it is at
PrunedForFolder ==
    prune_query(iter.query, Head(iter.folder_index_iterator).address_filter)

\* C21: when the query pruned for a folder has no log selection and no
\* transaction selection left and include_all_blocks is false, the call of
\* next that takes the folder gives an Ok QueryResult with empty data and
\* next_block = the end of the folder's block range, reads neither the row
\* group index nor the Parquet files, and leaves the iterator at the next
\* folder, not finished; only a failed read of the folder index itself
\* gives an error instead.
C21_PruneShortCircuit ==
    [][(/\ AtFolder
        /\ PrunedForFolder.logs = <<>>
        /\ PrunedForFolder.transactions = <<>>
        /\ ~PrunedForFolder.include_all_blocks
        /\ iter' # iter) =>
          /\ worker' = "send"
          /\ iter' = [iter EXCEPT !.folder_index_iterator = Tail(@)]
          /\ in_mem_queries' = in_mem_queries
          /\ last_io' = {}
          /\ \/ worker_res' = Err("failed to read folder index")
             \/ worker_res' =
                    Ok(QueryResult(QueryResultData(<<>>, <<>>, <<>>),
                        Head(iter.folder_index_iterator).block_range[2]))
      ]_vars

\* a folder whose filter has no address of the query gave the empty
\* result, and a folder is left to go on with
C21_Witness ==
    /\ worker = "send"
    /\ worker_res.tag = "Ok"
    /\ worker_res.v.data = QueryResultData(<<>>, <<>>, <<>>)
    /\ iter.query.logs # <<>>
    /\ last_io = {}
    /\ in_mem_queries = 0
    /\ iter.folder_index_iterator # <<>>

-----------------------------------------------------------------------------
(* Claims on the HTTP server (SpecServer)                                   *)

IsEmptyData(data) ==
    data.logs = <<>> /\ data.transactions = <<>> /\ data.blocks = <<>>

\* the sequences seqs one after the other, with sep between two of them
RECURSIVE Join(_, _)
Join(seqs, sep) ==
    IF seqs = <<>> THEN <<>>
    ELSE IF Len(seqs) = 1 THEN Head(seqs)
    ELSE Head(seqs) \o sep \o Join(Tail(seqs), sep)

\* the JSON object of the data of a partial: its members that are not
\* empty, of hex encoded rows, with a comma between two of them
ObjectOf(data) ==
    LET members ==
            SelectSeq(<<<<"\"logs\":", data.logs>>,
                        <<"\"transactions\":", data.transactions>>,
                        <<"\"blocks\":", data.blocks>>>>,
                      LAMBDA m : m[2] # <<>>)
    IN  <<Lit("{")>>
        \o Join([i \in DOMAIN members |->
                    <<Lit(members[i][1]),
                      json_rows([j \in DOMAIN members[i][2] |->
                                    hex_encode_batch(members[i][2][j])])>>],
                <<Lit(",")>>)
        \o <<Lit("}")>>

\* the body up to the end of the data array of the partials: the objects
\* of the partials that are not empty, in their order, with one comma
\* between two of them
DataArray(partials) ==
    LET objects == SelectSeq(partials, LAMBDA d : ~IsEmptyData(d))
    IN  <<Lit("{\"data\":[")>>
        \o Join([i \in DOMAIN objects |-> ObjectOf(objects[i])], <<Lit(",")>>)

\* C22: whatever empty and non-empty partials run_query has taken, the body
\* is the opening of the data array followed by the objects of the
\* non-empty partials, in order, with single commas between them and none
\* before, after or doubled; an empty partial has added no byte; and the
\* data array of the finished body is closed right after the last object.
C22_EmptyPartialsAddNothing ==
    run # NotRun =>
        /\ run.pc \in {"recv", "after_loop"} => run.bytes = DataArray(received)
        /\ (run.pc = "done" /\ run.response.tag = "Ok") =>
              run.response.v.body = DataArray(received) \o <<Lit("]")>>

\* a limit of the response is reached: the size of the body as the step
\* leaves it, or the time since the query started
LimitReached ==
    \/ bytes_len(run'.bytes)
          >= server_state.cfg.response_size_limit_mb * MEGABYTES
    \/ run_clock - run.query_start >= server_state.cfg.response_time_limit_ms

\* C23: run_query sets hit_limit exactly when a partial it has taken makes
\* the body reach response_size_limit_mb MiB or finds the time since the
\* start at response_time_limit_ms or more; from then on it takes no
\* further partial, drops the receiver, does not run the in-memory query,
\* and completes the response with the archive height, the next_block of
\* the last partial and the total time. With no limit hit, its loop is left
\* for the rest of run_query only when the channel is empty and its sender
\* gone.
C23_LimitStopsLoop ==
    [][(run # NotRun /\ run' # NotRun) =>
        /\ (run.pc = "recv" /\ received' # received) =>
              /\ run'.hit_limit <=> LimitReached
              /\ run'.pc = IF LimitReached THEN "after_loop" ELSE "recv"
        /\ run.hit_limit =>
              /\ received' = received
              /\ run'.hit_limit
              /\ ~run'.in_mem_queried
              /\ run' # run =>
                    /\ ~run_chan'.rx
                    /\ run'.pc = "done"
                    /\ run'.response =
                          Ok([body |-> Append(run.bytes, Lit("]")),
                              archiveHeight |-> run.height,
                              nextBlock |-> run.next_block,
                              totalTime |-> run_clock - run.query_start])
        /\ (run.pc = "recv" /\ run'.pc = "after_loop" /\ ~run'.hit_limit) =>
              /\ run_chan.buf = <<>>
              /\ ~run_chan.tx
      ]_vars

\* a response that was completed after the size limit was hit at the
\* second partial, while the db had not ended the stream and the in-memory
\* buffer held the block to go on with
C23_Witness ==
    /\ run # NotRun
    /\ run.pc = "done"
    /\ run.hit_limit
    /\ run.response.tag = "Ok"
    /\ Len(received) = 2
    /\ run_chan.tx
    /\ run_clock - run.query_start < server_state.cfg.response_time_limit_ms
    /\ run.next_block >= run.data_state.in_mem.from_block
    /\ run.next_block <= run.data_state.in_mem.to_block

-----------------------------------------------------------------------------
(* Claims on the snapshot of a query (SpecHandler)                          *)

\* C24: the in-memory buffer that next loads for a query, to test its range
\* against and to execute the query on, is the buffer that was current
\* when handle was called for the query, whatever the ingest pipeline has
\* published since.
C24_SnapshotOfQueryStart ==
    in_mem_used # NotRun => in_mem_used = in_mem_at_start

-----------------------------------------------------------------------------
(* Claims on prune_query (SpecPrune)                                        *)

\* an address-like field keeps a selection: it was empty, or the filter
\* contains one of its addresses
FieldSurvives(addrs) == addrs = {} \/ addrs \cap prune_filter # {}

\* C25: prune_query keeps in the address of a log selection and in the from
\* and to of a transaction selection exactly the addresses the bloom filter
\* contains; it drops a selection exactly when one of these fields was not
\* empty and has no address left; a selection whose fields were all empty
\* is kept as it is; the selections kept are in their order and have their
\* topics, sighash and status; from_block, to_block, field_selection and
\* include_all_blocks are those of the query.
C25_PruneQuery ==
    pruned # <<>> =>
        LET kept_logs ==
                SelectSeq(prune_q.logs, LAMBDA s : FieldSurvives(s.address))
            kept_txs ==
                SelectSeq(prune_q.transactions,
                    LAMBDA s : FieldSurvives(s.from) /\ FieldSurvives(s.to))
        IN  /\ pruned[1].logs =
                  [i \in DOMAIN kept_logs |->
                      LogSelection(kept_logs[i].address \cap prune_filter,
                                   kept_logs[i].topics)]
            /\ pruned[1].transactions =
                  [i \in DOMAIN kept_txs |->
                      TransactionSelection(kept_txs[i].from \cap prune_filter,
                                           kept_txs[i].to \cap prune_filter,
                                           kept_txs[i].sighash,
                                           kept_txs[i].status)]
            /\ \A i \in DOMAIN kept_txs :
                  (kept_txs[i].from = {} /\ kept_txs[i].to = {}) =>
                      pruned[1].transactions[i] = kept_txs[i]
            /\ pruned[1].from_block = prune_q.from_block
            /\ pruned[1].to_block = prune_q.to_block
            /\ pruned[1].field_selection = prune_q.field_selection
            /\ pruned[1].include_all_blocks = prune_q.include_all_blocks

\* of two log selections the first was dropped and the second lost an
\* address, and a transaction selection was dropped for its to while its
\* from had an address left
C25_Witness ==
    /\ pruned # <<>>
    /\ Len(prune_q.logs) = 2
    /\ Len(pruned[1].logs) = 1
    /\ pruned[1].logs[1].address = {"F"}
    /\ Len(prune_q.transactions) = 2
    /\ prune_q.transactions[1].from \cap prune_filter = {"F"}
    /\ prune_q.transactions[1].to = {"G"}
    /\ pruned[1].transactions = <<>>

\* every address of a selection of the query
QueryAddrs(q) ==
    UNION ({q.logs[i].address : i \in DOMAIN q.logs}
           \cup {q.transactions[i].from : i \in DOMAIN q.transactions}
           \cup {q.transactions[i].to : i \in DOMAIN q.transactions})

\* C26: when the bloom filter contains every address of the selections of
\* the query, prune_query returns the query itself, and execute_query gives
\* for the pruned query what it gives for the query on every provider; and
\* prune_query on its own result, with the same filter, returns that result.
C26_PruneAllContained ==
    /\ (pruned # <<>> /\ QueryAddrs(prune_q) \subseteq prune_filter) =>
          /\ pruned[1] = prune_q
          /\ Len(pruned) = 1 =>
                \A p \in Providers :
                    execute_query(p, pruned[1]) = execute_query(p, prune_q)
    /\ \A i \in DOMAIN pruned : pruned[i] = pruned[1]

\* a query with addresses in its log and transaction selections was pruned
\* twice with a filter that contains them all and another address
C26_Witness ==
    /\ Len(pruned) = 2
    /\ QueryAddrs(prune_q) = {"A", "F"}
    /\ prune_filter = {"A", "F", "G"}
    /\ Len(prune_q.logs) = 2
    /\ Len(prune_q.transactions) = 1

-----------------------------------------------------------------------------
(* Claims on the handler, continued (SpecHandler)                           *)

\* C27: a call of next that starts when the time since the query started
\* is time_limit_ms or more returns None and finishes the iterator: it
\* takes no folder, reads nothing, does not query the in-memory provider,
\* and nothing is sent; and whenever the iterator is finished, a call of
\* next at any instant returns None and leaves it as it is (next reads
\* the iterator and the handler only, so the second part is evaluated in
\* each step that changes one of them; no initial state has an iterator).
C27_TimeBudget ==
    [][/\ (/\ worker = "next"
           /\ ~iter.finished
           /\ TimeExceeded
           /\ (iter' # iter \/ worker' # worker)) =>
             /\ iter' = [iter EXCEPT !.finished = TRUE]
             /\ worker' = "done"
             /\ worker_res' = NotRun
             /\ stream' = stream
             /\ in_mem_queries' = in_mem_queries
             /\ last_io' = {}
             /\ in_mem_used' = in_mem_used
       /\ (/\ iter' # NotRun /\ iter'.finished
           /\ (iter' # iter \/ handler' # handler)) =>
             \A r \in {next(iter', handler', t, io) :
                           t \in 0..MaxElapsedMs, io \in IoOutcomes} :
                /\ r.item = None
                /\ r.iter = iter'
                /\ ~r.in_mem_queried
      ]_vars

\* the worker left its loop at the time limit after it had sent a folder
\* result, with a folder left to take and the receiver alive
C27_Witness ==
    /\ worker = "done"
    /\ iter.finished
    /\ TimeExceeded
    /\ iter.folder_index_iterator # <<>>
    /\ stream # <<>>
    /\ stream[Len(stream)].tag = "Ok"
    /\ in_mem_queries = 0
    /\ channel.rx


\* C28: an error that a call of next gives (the read of the folder index,
\* the read of the row group index, the execution of the query) is sent on
\* the channel if the receiver is alive, and the worker leaves its loop
\* after it: an Err is the last item of the stream, and once the worker has
\* left its loop it takes no folder, does not query the in-memory provider
\* and sends nothing.
C28_ErrorEndsStream ==
    [][/\ \A i \in DOMAIN stream' :
             stream'[i].tag = "Err" => (i = Len(stream') /\ worker' = "done")
       /\ (worker = "send" /\ worker_res.tag = "Err" /\ worker' # worker) =>
             /\ worker' = "done"
             /\ channel.rx => stream' = Append(stream, worker_res)
       /\ worker = "done" =>
             /\ worker' = "done"
             /\ iter' = iter
             /\ stream' = stream
             /\ in_mem_queries' = in_mem_queries
      ]_vars

\* a folder result and then an error were sent, and the worker left its
\* loop before the in-memory buffer, which the query overlaps, was queried
C28_Witness ==
    /\ worker = "done"
    /\ Len(stream) = 2
    /\ stream[1].tag = "Ok"
    /\ stream[2].tag = "Err"
    /\ ~iter.finished
    /\ OverlapsInMem
    /\ handler.state.in_mem.to_block > handler.state.in_mem.from_block
    /\ in_mem_queries = 0

\* C29: once the receiver is dropped, the worker's next send fails and the
\* worker leaves its loop: it sends nothing more, and after the failed send
\* it takes no folder and does not query the in-memory provider; and the
\* channel never holds more than one result the receiver has not taken,
\* the worker waiting with the result it has in hand until there is room.
C29_Cancellation ==
    [][/\ (channel' # NotRun) => Len(channel'.buf) <= 1
       /\ (channel # NotRun /\ ~channel.rx) =>
             /\ ~channel'.rx
             /\ stream' = stream
             /\ (worker = "send" /\ worker' # worker) =>
                   /\ worker' = "done"
                   /\ iter' = iter
                   /\ in_mem_queries' = in_mem_queries
             /\ worker = "done" =>
                   /\ worker' = "done"
                   /\ iter' = iter
                   /\ in_mem_queries' = in_mem_queries
       /\ (worker = "send" /\ channel.rx /\ Len(channel.buf) = 1) =>
             (stream' = stream /\ worker' = "send" /\ iter' = iter)
      ]_vars

\* the receiver took the first folder result and was dropped; the worker's
\* send of the next result failed and it left its loop before the
\* in-memory buffer, which the query overlaps, was queried
C29_Witness ==
    /\ worker = "done"
    /\ ~channel.rx
    /\ Len(stream) = 1
    /\ stream[1].tag = "Ok"
    /\ ~iter.finished
    /\ iter.folder_index_iterator = <<>>
    /\ OverlapsInMem
    /\ in_mem_queries = 0


-----------------------------------------------------------------------------
(* Claims on the rate window, continued (SpecLimit)                         *)

\* C30: update_limit refuses every request whose cost is req_limit or more,
\* in a window that was just reset as in any other, so that the count of
\* the window is at most req_limit - 1 in every state; with req_limit = 1
\* nothing is ever admitted.
C30_CostAtLimitRefused ==
    /\ window_num_reqs <= limit_config.req_limit - 1
    /\ (lim_call # NotRun /\ lim_call.cost >= limit_config.req_limit) =>
          lim_call.res = "EndpointLimitTooLow"
    /\ limit_config.req_limit = 1 =>
          \A t \in DOMAIN admitted_at : admitted_at[t] = 0

\* a request of cost req_limit was refused by the call that reset a window
\* in which a request had been admitted
C30_Witness ==
    /\ lim_call # NotRun
    /\ lim_call.cost = limit_config.req_limit
    /\ lim_call.pre_count > 0
    /\ lim_call.at - lim_call.pre_refresh >= limit_config.req_limit_window_ms
    /\ lim_call.res = "EndpointLimitTooLow"
    /\ window_num_reqs = 0


-----------------------------------------------------------------------------
(* Claims on the HTTP server, continued (SpecServer)                        *)

\* C31: every successful response of run_query has nextBlock at or after
\* the first block of the query, also when no partial was received and the
\* in-memory query did not run.
C31_NextBlockProgress ==
    (run # NotRun /\ run.response # NotRun /\ run.response.tag = "Ok") =>
        run.response.v.nextBlock >= run.query.from_block

=============================================================================
